---- MODULE Spec2Model ----
(***************************************************************************)
(* Response orchestration of the Nexus-360 chatbot:                        *)
(* ChatbotService.get_response and _try_fallback_model                     *)
(* (chatbot/utils/chatbot_service.py), the two provider clients            *)
(* (gemini_client.py, openai_client.py) and the entry points that call     *)
(* get_response (views.chat, ChatConsumer.get_chatbot_response, direct     *)
(* calls with preferred_model).                                            *)
(*                                                                         *)
(* Next to it: GoogleSheetsClient and the Django cache behind it           *)
(* (google_sheets.py), GoogleSearchClient with its cache keys, its retry   *)
(* loop and its metrics record (google_search.py), the safe mode of        *)
(* SQLDatabaseClient (sql_database_client.py), the search classifier on    *)
(* the text of a prompt, and the backoff delays of the two retry loops.    *)
(*                                                                         *)
(* A provider API is modelled by a behaviour fixed before the request:     *)
(* it fails its first n calls with one failure kind and then answers, or   *)
(* fails for ever.  Texts are modelled by what they are made of: which     *)
(* client produced them and whether the string of a caught exception was   *)
(* formatted into them.                                                    *)
(***************************************************************************)
EXTENDS Integers, Sequences, FiniteSets, TLC

VARIABLES
    pc,               \* position of the request inside get_response
    caller,           \* entry point that issued the request
    selected_model,   \* model chosen by the client of the entry point
    preferred_model,  \* get_response's preferred_model argument
    gemini_client,    \* class of the object held in service.gemini_client
    openai_client,    \* class of the object held in service.openai_client
    use_sql,          \* settings.USE_SQL_DATABASE
    is_sql_query,     \* local of get_response
    is_search_query,  \* local of get_response
    data_keyword,     \* the prompt contains a word that names project data
    database_data,    \* local of get_response
    search_context,   \* local of get_response
    generated_query,  \* local of get_response (SQL path)
    attempt,          \* loop variable of _try_fallback_model
    error_message,    \* str(e) of the primary failure
    geminiEnv,        \* behaviour of the Gemini API
    openaiEnv,        \* behaviour of the OpenAI API and of settings.OPENAI_API_KEY
    geminiApiCalls,   \* chat_session.send_message calls made so far
    openaiApiCalls,   \* openai.chat.completions.create calls made so far
    trace,            \* client invocations, store calls and sleeps, in order
    outcome,          \* "none", "returned" or "raised"
    envelope,         \* the dict returned by get_response
    cache,            \* django.core.cache.cache: key -> value, None when absent
    spreadsheets,     \* version of the rows each spreadsheet holds
    client,           \* GoogleSheetsClient.client is set (connect() succeeded)
    ops,              \* operations on the sheets client and its store, mod 2
    last,             \* the last operation on the sheets client or its store
    api_key,          \* GoogleSearchClient: api_key and search_engine_id set
    search_cache,     \* the cached results of the search query, <<>> when absent
    metrics,          \* the metrics record of the day, as the cache holds it
    search_call,      \* the call of the search client in progress
    search_trace,     \* requests, sleeps and metric records of that call
    workers,          \* threads inside _log_search_metrics
    sessions,         \* the rows of ChatSession, by id
    updated_order,    \* the ids of the sessions, the last updated first
    chat_messages,    \* the rows of ChatMessage, in the order of creation
    analytics,        \* the ChatAnalytics row of the day of each user
    answered,         \* the number of answered chat requests of each user
    web_last,         \* the last request to the web layer and its answer
    receiving,        \* the call of ChatConsumer.receive in progress
    room,             \* frames sent to the sockets of the room, last receive
    input,            \* arguments of the function under study
    output            \* what the function has computed from them, <<>> before

serviceVars == <<pc, caller, selected_model, preferred_model, gemini_client,
          openai_client, use_sql, is_sql_query, is_search_query, data_keyword,
          database_data, search_context, generated_query, attempt,
          error_message, geminiEnv, openaiEnv, geminiApiCalls,
          openaiApiCalls, trace, outcome, envelope>>

sheetsVars == <<cache, spreadsheets, client, ops, last>>

searchVars == <<api_key, search_cache, metrics, search_call, search_trace,
                workers>>

callVars == <<input, output>>

webVars == <<sessions, updated_order, chat_messages, analytics, answered,
             web_last, receiving, room>>

vars == <<serviceVars, sheetsVars, webVars, searchVars, callVars, webVars>>

(***************************************************************************)
(* Bounds                                                                  *)
(***************************************************************************)
\* longest run of failures after which a provider API recovers
MaxFail == 2
\* most keywords of one list found in a prompt
MaxKeywords == 1
\* random.uniform(0, 1) takes the values 0, 1/JitterSteps, ..., 1; delays
\* are counted in units of 1/JitterSteps second
JitterSteps == 2
\* most characters of a search query
MaxQueryLen == 2
\* the worksheets of a spreadsheet hold no rows (0) or one of MaxVersion
\* versions of their rows
MaxVersion == 1
\* most items in one answer of the search API
MaxResults == 2
\* most calls of the search client in one day
MaxCalls == 2
\* threads that serve requests at the same time
MaxThreads == 2
\* most metric records one thread logs
MaxLogs == 2
\* most pieces of a SQL statement
MaxStatementLen == 3
\* most pieces of text in a prompt
MaxPhrases == 3
\* requests to the web layer
MaxRequests == 3
\* characters of a chat message
MaxMessageLen == 2
\* turns of a client's history beyond the limit of views.chat
MaxExtraTurns == 1

(***************************************************************************)
(* Program constants                                                       *)
(***************************************************************************)
rate_limit_retries == 3
rate_limit_cooldown == 5
max_retries == 5
initial_retry_delay == 1
max_retry_delay == 60
\* views.chat (views.py line 70)
history_limit == 50

None == "None"

(***************************************************************************)
(* Query classifier (scores in tenths)                                     *)
(***************************************************************************)
\* dataKw: the prompt contains a word that names project data (project,
\* budget, member, status); no function of the service reads it
Prompts ==
    [sqlInd : 0..MaxKeywords, sqlPat : 0..MaxKeywords,
     ind : 0..MaxKeywords, pat : 0..MaxKeywords, dbFocused : BOOLEAN,
     dataKw : BOOLEAN]

_is_sql_query(p) == 10 * p.sqlInd + 5 * p.sqlPat >= 15

_is_search_query(p) ==
    10 * p.ind + 7 * p.pat - (IF p.dbFocused THEN 10 ELSE 0) >= 10

Min(a, b) == IF a < b THEN a ELSE b

(***************************************************************************)
(* Provider APIs                                                           *)
(***************************************************************************)
GeminiFailKinds == {"auth", "rate_limit", "timeout", "context", "other"}
OpenAIFailKinds == {"auth", "rate_limit", "timeout", "context", "other",
                    "model_not_found", "unexpected"}

Healthy == [kind |-> "ok", n |-> 0, forever |-> FALSE]

Behaviours(kinds) ==
    {Healthy}
      \cup [kind : kinds, n : 1..MaxFail, forever : {FALSE}]
      \cup [kind : kinds, n : {0}, forever : {TRUE}]

\* settings.OPENAI_API_KEY empty
NoKey == [kind |-> "nokey", n |-> 0, forever |-> TRUE]

\* outcome of the i-th call of an API that behaves as env
ApiOutcome(env, i) ==
    IF env.forever \/ i <= env.n THEN env.kind ELSE "ok"

(***************************************************************************)
(* Texts and exceptions                                                    *)
(***************************************************************************)
\* msg: which string; gen: the client whose code or API produced it;
\* exc: TRUE when str(e) of a caught exception is formatted into it
Text(msg, gen, exc) == [msg |-> msg, gen |-> gen, exc |-> exc]

NoText == Text("", "none", FALSE)

Return(text, g, o, s, api) ==
    [tag |-> "return", text |-> text, exc |-> "none",
     gApi |-> g, oApi |-> o, sleeps |-> s, api |-> api]

Raise(exc, g, o, s, api) ==
    [tag |-> "raise", text |-> NoText, exc |-> exc,
     gApi |-> g, oApi |-> o, sleeps |-> s, api |-> api]

\* "api key" in str(e).lower() or "authentication" in str(e).lower()
MentionsApiKey(exc) == exc \in {"auth", "nokey"}

\* a test that takes every failure for a rate limit
MentionsAnyFailure(exc) == TRUE

\* "rate limit" in s or "too many requests" in s or "429" in s
MentionsRateLimit(exc) == exc = "rate_limit"

(***************************************************************************)
(* GeminiClient                                                            *)
(***************************************************************************)
\* GeminiClient.get_chatbot_response(..., use_fallback=True): the whole body
\* is one try block whose except returns a string built from str(e).
\* g, o: API calls made so far.
GeminiClient_get_chatbot_response(g, o) ==
    LET api == ApiOutcome(geminiEnv, g + 1) IN
    IF api = "ok"
      THEN Return(Text("answer", "gemini", FALSE), g + 1, o, 0, api)
      ELSE Return(Text("gemini_error_text", "gemini", TRUE), g + 1, o, 0, api)

(***************************************************************************)
(* OpenAIClient                                                            *)
(***************************************************************************)
\* OpenAIClient.__init__ builds its own GeminiClient; ChatbotService.__init__
\* has built one with the same settings just before, so it succeeds.
gemini_available == TRUE

\* reasonExc: the error_reason is str(e) rather than a fixed phrase
_use_gemini_fallback(reasonExc, g, o, s, api) ==
    IF ~gemini_available
      THEN Return(Text("backup_unavailable", "openai", reasonExc), g, o, s, api)
      ELSE LET r == GeminiClient_get_chatbot_response(g, o) IN
           IF r.tag = "return"
             THEN Return(Text("gemini_backup", "gemini", r.text.exc),
                         r.gApi, o, s, api)
             ELSE Return(Text("both_unavailable", "openai", FALSE),
                         r.gApi, o, s, api)

\* a loop that retries once more when retries has reached max_retries
RetryAllowedAtLimit(retries) == retries <= max_retries

\* "if retries < self.max_retries:" of the three retrying handlers
\* (openai_client.py lines 92, 104, 123)
RetryAllowed(retries) == retries < max_retries

\* the while loop of OpenAIClient.get_chatbot_response; first: outcome of the
\* first completion call of this invocation ("" before it is made)
RECURSIVE OpenAIRetryLoop(_, _, _, _, _)
OpenAIRetryLoop(retries, g, o, s, first) ==
    IF retries > max_retries
      THEN _use_gemini_fallback(FALSE, g, o, s, first)
      ELSE
        LET api == ApiOutcome(openaiEnv, o + 1)
            f   == IF first = "" THEN api ELSE first
        IN
        CASE api = "ok" ->
               Return(Text("answer", "openai", FALSE), g, o + 1, s, f)
          [] api \in {"timeout", "rate_limit"} ->
               IF RetryAllowed(retries)
                 THEN OpenAIRetryLoop(retries + 1, g, o + 1, s + 1, f)
                 ELSE _use_gemini_fallback(FALSE, g, o + 1, s, f)
          [] api = "model_not_found" ->
               _use_gemini_fallback(FALSE, g, o + 1, s, f)
          [] api = "context" ->
               Return(Text("conversation_too_long", "openai", FALSE),
                      g, o + 1, s, f)
          [] api \in {"auth", "other"} ->
               IF RetryAllowed(retries)
                 THEN OpenAIRetryLoop(retries + 1, g, o + 1, s + 1, f)
                 ELSE _use_gemini_fallback(TRUE, g, o + 1, s, f)
          [] OTHER ->
               _use_gemini_fallback(TRUE, g, o + 1, s, f)

\* def get_chatbot_response(self, prompt, database_data=None, history=None,
\* context=None): there is no use_fallback parameter
OpenAIAcceptsUseFallback == FALSE

\* kw: the call passes the keyword argument use_fallback
OpenAIClient_get_chatbot_response(kw, g, o) ==
    IF kw /\ ~OpenAIAcceptsUseFallback
      THEN Raise("type_error", g, o, 0, "not_reached")
      ELSE IF openaiEnv = NoKey
        THEN Raise("nokey", g, o, 0, "not_reached")
        ELSE OpenAIRetryLoop(0, g, o, 0, "")

\* the patched OpenAIClient of the resilience tests: a MagicMock whose
\* side_effect raises Exception(<failure>) or returns the answer, call after
\* call, as openaiEnv says; it takes any keyword argument
MagicMock_get_chatbot_response(g, o) ==
    LET api == ApiOutcome(openaiEnv, o + 1) IN
    IF api = "ok"
      THEN Return(Text("answer", "openai", FALSE), g, o + 1, 0, api)
      ELSE Raise(api, g, o + 1, 0, api)

\* obj.get_chatbot_response(...) for the object of class cls
ClientCall(cls, kw, g, o) ==
    CASE cls = "GeminiClient" -> GeminiClient_get_chatbot_response(g, o)
      [] cls = "MagicMock" -> MagicMock_get_chatbot_response(g, o)
      [] OTHER -> OpenAIClient_get_chatbot_response(kw, g, o)

(***************************************************************************)
(* Backoff delays                                                          *)
(***************************************************************************)
Jitters == 0..JitterSteps

\* the same delay with the exponent one too high
ServiceDelayNextPower(att, jitter) ==
    rate_limit_cooldown * (2 ^ (att + 1)) * JitterSteps + jitter

\* delay = base_delay * (2 ** attempt) + random.uniform(0, 1)
\* (chatbot_service.py line 428, base_delay = self.rate_limit_cooldown)
ServiceDelay(att, jitter) ==
    rate_limit_cooldown * (2 ^ att) * JitterSteps + jitter

\* delay = min(self.initial_retry_delay * (2 ** retries)
\*             + random.uniform(0, 1), self.max_retry_delay)
\* (openai_client.py lines 94, 106, 125)
OpenAIDelay(retries, jitter) ==
    LET d == initial_retry_delay * (2 ^ retries) * JitterSteps + jitter
        cap == max_retry_delay * JitterSteps
    IN IF d < cap THEN d ELSE cap

(***************************************************************************)
(* Trace events                                                            *)
(***************************************************************************)
\* role: "primary", "fallback", "sql_generate", "sql_explain"
\* label: the model name the service uses for this client ("" on the SQL path)
\* history: the history argument of the call: get_response's own history,
\* unchanged, on the answer path (lines 265-271, 399-405), None on the SQL
\* path (lines 166-171, 206-211)
CallEvent(cls, role, label, prompt, r) ==
    [ev |-> "call", cls |-> cls, role |-> role, label |-> label,
     prompt |-> prompt, result |-> r.tag, exc |-> r.exc, api |-> r.api,
     sleeps |-> r.sleeps,
     history |-> IF role \in {"primary", "fallback"} THEN "full" ELSE None]

\* time.sleep(delay) of line 430
SleepEvent(att, jitter) ==
    [ev |-> "sleep", cls |-> "", role |-> "fallback", label |-> "",
     prompt |-> "", result |-> "", exc |-> "", api |-> "", sleeps |-> 1,
     history |-> "", att |-> att, jitter |-> jitter,
     delay |-> ServiceDelay(att, jitter)]

StoreEvent ==
    [ev |-> "store", cls |-> "", role |-> "", label |-> "",
     prompt |-> "", result |-> "", exc |-> "", api |-> "", sleeps |-> 0,
     history |-> ""]

\* execute_sql_query(clean_query) of line 184 and the frame it returned
QueryEvent(qo) ==
    [ev |-> "query", cls |-> "", role |-> "", label |-> "",
     prompt |-> "", result |-> qo, exc |-> "", api |-> "", sleeps |-> 0,
     history |-> ""]

(***************************************************************************)
(* GoogleSheetsClient and the Django cache behind it                       *)
(***************************************************************************)
\* settings.GOOGLE_SHEETS_PROJECT_DB and one entry of
\* settings.ADDITIONAL_GOOGLE_SHEETS, in the order _load_available_sheets
\* inserts them
SheetOrder == <<"default", "Marketing">>

SheetNames == {SheetOrder[i] : i \in 1..Len(SheetOrder)}

available_sheets == [n \in SheetNames |-> "id_" \o n]

SheetIds == {available_sheets[n] : n \in SheetNames}

\* self.sheet_id after __init__(sheet_id=arg) (line 22)
SheetIdOf(arg) == IF arg # None THEN arg ELSE available_sheets["default"]

\* GoogleSheetsClient() is always built without a sheet_id argument, and
\* get_all_projects_from_all_sheets resets self.sheet_id before it returns
sheet_id == SheetIdOf(None)

\* the spreadsheet a fetch opens (lines 87-93, 266-272)
CurrentSheetId(self_sheet_id, sheet_name) ==
    IF sheet_name # None /\ sheet_name \in DOMAIN available_sheets
      THEN available_sheets[sheet_name]
      ELSE self_sheet_id

\* the sheet_name arguments of the callers
SheetArgs == {None} \cup SheetNames

\* f"projects_{sheet_name or 'default'}", f"members_{sheet_name or 'default'}"
CacheKey(prefix, sheet_name) ==
    prefix \o (IF sheet_name = None THEN "default" ELSE sheet_name)

AllSheetsKey == "all_projects_all_sheets"

CacheKeys ==
    {CacheKey(pf, n) : pf \in {"projects_", "members_"}, n \in SheetNames}
      \cup {AllSheetsKey}

\* get_all_records() of worksheet ws of a spreadsheet that holds version v
\* of its rows, each record annotated with _source_sheet: no record at all
\* for v = 0
Records(src, ws, v) ==
    IF v = 0 THEN <<>>
             ELSE <<[source_sheet |-> src, worksheet |-> ws, rows |-> v,
                     only |-> None]>>

\* "if cached_data:": None and the empty list are both false
Truthy(x) == x # None /\ x # <<>>

\* the list comprehensions of lines 253-258 and 286-291
ApplyFilter(list, project_name) ==
    IF project_name = None
      THEN list
      ELSE [i \in DOMAIN list |-> [list[i] EXCEPT !.only = project_name]]

\* what one pass through the store can meet: connect() returns False (only
\* while self.client is unset), the API raises inside the try block, or the
\* records arrive
StoreCallOutcomes == {"ok", "api_error", "no_credentials"}

\* the state a fetch works on and what it has done so far: calls counts the
\* passes through the store, failed names the sheets whose pass failed, wrote
\* the cache keys set.  (self.last_update_time is written next to every
\* cache.set and read nowhere: it is left out.)
FetchState(c, cl, result, calls, failed, wrote) ==
    [cache |-> c, client |-> cl, result |-> result,
     calls |-> calls, failed |-> failed, wrote |-> wrote]

\* the common body of get_all_projects (lines 72-110) and get_project_members
\* (lines 245-294) before the filters: st is the state before the call, oc
\* the outcome the store has in hand for it
FetchWorksheet(ws, prefix, sheet_name, use_cache, st, oc) ==
    LET cache_key == CacheKey(prefix, sheet_name)
        src == IF sheet_name = None THEN "default" ELSE sheet_name
        cached_data == st.cache[cache_key]
        current_sheet_id == CurrentSheetId(sheet_id, sheet_name)
        records == Records(src, ws, spreadsheets[current_sheet_id])
    IN
    IF use_cache /\ Truthy(cached_data)
      THEN [st EXCEPT !.result = cached_data]
      ELSE IF ~st.client /\ oc = "no_credentials"
        THEN [st EXCEPT !.result = <<>>,
                        !.calls = @ + 1,
                        !.failed = @ \cup {src}]
        ELSE IF oc = "api_error"
          THEN [st EXCEPT !.client = TRUE,
                          !.result = <<>>,
                          !.calls = @ + 1,
                          !.failed = @ \cup {src}]
          ELSE [st EXCEPT !.client = TRUE,
                          !.cache = [@ EXCEPT ![cache_key] = records],
                          !.result = records,
                          !.calls = @ + 1,
                          !.wrote = @ \cup {cache_key}]

get_all_projects(sheet_name, use_cache, st, oc) ==
    FetchWorksheet("Projects", "projects_", sheet_name, use_cache, st, oc)

get_project_members(project_name, sheet_name, use_cache, st, oc) ==
    LET r == FetchWorksheet("Members", "members_", sheet_name, use_cache,
                            st, oc)
    IN [r EXCEPT !.result = ApplyFilter(@, project_name)]

\* the for loop of lines 195-201 from the i-th sheet on; all_projects: the
\* list extended so far; ocs: the store's outcome for each sheet
RECURSIVE FetchEachSheet(_, _, _, _, _)
FetchEachSheet(i, use_cache, st, all_projects, ocs) ==
    IF i > Len(SheetOrder)
      THEN [st EXCEPT !.result = all_projects]
      ELSE LET name == SheetOrder[i]
               r == get_all_projects(name, use_cache, st, ocs[name])
           IN FetchEachSheet(i + 1, use_cache, r, all_projects \o r.result,
                             ocs)

\* lines 185-211
get_all_projects_from_all_sheets(use_cache, st, ocs) ==
    LET cached_data == st.cache[AllSheetsKey] IN
    IF use_cache /\ Truthy(cached_data)
      THEN [st EXCEPT !.result = cached_data]
      ELSE LET r == FetchEachSheet(1, use_cache, st, <<>>, ocs) IN
           IF use_cache
             THEN [r EXCEPT !.cache = [@ EXCEPT ![AllSheetsKey] = r.result],
                            !.wrote = @ \cup {AllSheetsKey}]
             ELSE r

\* the keys clear_cache(sheet_name) deletes (lines 375-386)
ClearedKeys(sheet_name) ==
    IF sheet_name # None
      THEN {CacheKey("projects_", sheet_name), CacheKey("members_", sheet_name)}
      ELSE {CacheKey(pf, n) : pf \in {"projects_", "members_"},
                              n \in DOMAIN available_sheets}
             \cup {"projects_default", "members_default"}

\* an operation as last remembers it
OpRecord(op, sheet_name, use_cache, project_name, st) ==
    [op |-> op, sheet_name |-> sheet_name, use_cache |-> use_cache,
     project_name |-> project_name, result |-> st.result, calls |-> st.calls,
     failed |-> st.failed, wrote |-> st.wrote]

NoOp ==
    OpRecord("none", None, FALSE, None,
             FetchState(<<>>, FALSE, <<>>, 0, {}, {}))

\* no function is under study
NoCall ==
    /\ input = [kind |-> "none"]
    /\ output = <<>>

SheetsAtRest ==
    /\ cache = [k \in CacheKeys |-> None]
    /\ spreadsheets = [id \in SheetIds |-> 0]
    /\ client = FALSE
    /\ ops = 0
    /\ last = NoOp

(***************************************************************************)
(* GoogleSearchClient (google_search.py): data                             *)
(***************************************************************************)
\* getattr(settings, 'GOOGLE_SEARCH_RATE_LIMIT_RETRIES', 3) and
\* getattr(settings, 'GOOGLE_SEARCH_RATE_LIMIT_COOLDOWN', 2): no settings
\* module of the repository sets them
search_rate_limit_retries == 3
search_rate_limit_cooldown == 2

\* what _format_search_results keeps of an item of the API's answer
Results ==
    {[title |-> "t1", link |-> "u1", snippet |-> "s1"],
     [title |-> "t2", link |-> "u2", snippet |-> "s2"]}

ResultLists == UNION {[1..n -> Results] : n \in 0..MaxResults}

\* what requests.get and raise_for_status do with one request: an answer
\* with its items, an HTTPError with its status code, or another
\* RequestException (timeout, connection error), which has none
Responses ==
    [kind : {"ok"}, status : {200}, items : ResultLists]
      \cup [kind : {"HTTPError"}, status : {429, 500}, items : {<<>>}]
      \cup [kind : {"RequestException"}, status : {0}, items : {<<>>}]

\* the default of cache.get(metrics_key, {...}) (lines 80-87); an absent
\* record and this one read the same.  total_response_time is left out:
\* the code only adds to it
NoMetrics ==
    [total_searches |-> 0, successful_searches |-> 0, failed_searches |-> 0,
     cached_searches |-> 0, error_details |-> <<>>]

\* the arguments of one _log_search_metrics call; error_msg "" and
\* status_code 0 stand for None
MetricRecord(success, error_msg, cached, status_code) ==
    [success |-> success, error_msg |-> error_msg, cached |-> cached,
     status_code |-> status_code]

\* lines 89-104: the record _log_search_metrics writes back
UpdateMetrics(daily_metrics, rec) ==
    LET counted == [daily_metrics EXCEPT !.total_searches = @ + 1] IN
    IF rec.success
    THEN [counted EXCEPT
            !.successful_searches = @ + 1,
            !.cached_searches = IF rec.cached THEN @ + 1 ELSE @]
    ELSE [counted EXCEPT
            !.failed_searches = @ + 1,
            !.error_details =
               IF rec.error_msg # ""
               THEN Append(@, [error |-> rec.error_msg,
                               status_code |-> rec.status_code])
               ELSE @]

\* lines 174 and 191, in units of 1/JitterSteps second
SearchDelay(att, jitter) ==
    search_rate_limit_cooldown * (2 ^ att) * JitterSteps + jitter

\* what search() gives back, or the exception that leaves it
SearchResult(kind, value) == [kind |-> kind, value |-> value]

ReturnsNone == SearchResult("None", <<>>)

\* [Source k] heading, URL and excerpt of a result (lines 257-260)
SourceBlock(i, result) ==
    <<"[Source " \o ToString(i + 1) \o "] " \o result.title,
      "URL: " \o result.link,
      "Excerpt: " \o result.snippet,
      "">>

\* the same line numbered as enumerate counts, from 0
SourceLineFromZero(i, result) ==
    "[Source " \o ToString(i) \o ": " \o result.title
      \o " (" \o result.link \o ")]"

\* line 269
SourceLine(i, result) ==
    "[Source " \o ToString(i + 1) \o ": " \o result.title
      \o " (" \o result.link \o ")]"

RECURSIVE SourceBlocks(_, _)
SourceBlocks(results, i) ==
    IF i >= Len(results) THEN <<>>
    ELSE SourceBlock(i, results[i + 1]) \o SourceBlocks(results, i + 1)

NoResultsText == "No relevant search results found."

\* GoogleSearchClient.get_search_context after its call of search (lines
\* 251-276): the lines of the text it returns
GoogleSearchClient_get_search_context(r) ==
    IF r.kind = "raised"
    THEN SearchResult("text", <<"Error retrieving search results: " \o r.value>>)
    ELSE IF r.kind = "None" \/ r.value = <<>>
    THEN SearchResult("text", <<NoResultsText>>)
    ELSE SearchResult("text",
           <<"Here is information from recent web searches:", "">>
             \o SourceBlocks(r.value, 0)
             \o <<"",
                  "When citing sources in your response, please include the full source information as follows:",
                  "For example, instead of just saying [Source 1], say [Source 1: Title of the Source (URL)].",
                  "",
                  "Sources for reference:">>
             \o [k \in 1..Len(r.value) |-> SourceLine(k - 1, r.value[k])])

\* no call of the search client has been made
IdleCall ==
    [pc |-> "idle", entry |-> "", use_cache |-> FALSE, attempt |-> 0,
     n |-> 0, total_before |-> 0, results |-> SearchResult("pending", <<>>),
     result |-> SearchResult("pending", <<>>)]

SearchAtRest ==
    /\ api_key = FALSE
    /\ search_cache = <<>>
    /\ metrics = NoMetrics
    /\ search_call = IdleCall
    /\ search_trace = <<>>
    /\ workers = <<>>

(***************************************************************************)
(* Web layer (views.py, consumers.py, models.py): data                     *)
(***************************************************************************)
Users == {"alice", "bob"}

\* a row of ChatSession; is_active defaults to True (models.py line 68).
\* The id of a row is its index in sessions; a deleted row keeps its index
NewSession(user) == [user |-> user, is_active |-> TRUE, deleted |-> FALSE]

\* the row with this id is in the table
Exists(session_id) ==
    /\ session_id \in 1..Len(sessions)
    /\ ~sessions[session_id].deleted

\* a lookup by id alone
GetSessionAnyUser(user, session_id) == Exists(session_id)

\* ChatSession.objects.get(id=session_id, user=user) finds a row
\* (DoesNotExist otherwise)
GetSession(user, session_id) ==
    Exists(session_id) /\ sessions[session_id].user = user

\* ChatSession.objects.filter(user=user, is_active=True)
ActiveSessions(user) ==
    {s \in 1..Len(sessions) :
        Exists(s) /\ sessions[s].user = user /\ sessions[s].is_active}

\* .first() under Meta.ordering = ['-updated_at']
FirstActive(user) ==
    Head(SelectSeq(updated_order, LAMBDA s : s \in ActiveSessions(user)))

\* session.save(): updated_at = now
Touch(order, s) == <<s>> \o SelectSeq(order, LAMBDA x : x # s)

\* the session a request works on: the tables after the lookup, and its id
Fetched(session_id) ==
    [s |-> sessions, o |-> updated_order, id |-> session_id]

\* ChatSession.objects.create(user=user)
Created(user) ==
    [s |-> Append(sessions, NewSession(user)),
     o |-> <<Len(sessions) + 1>> \o updated_order,
     id |-> Len(sessions) + 1]

\* ChatConsumer.get_or_create_session, and lines 75-80 of views.chat
get_or_create_session(user, session_id) ==
    IF GetSession(user, session_id) THEN Fetched(session_id)
                                    ELSE Created(user)

\* lines 82-84 of views.chat and 30-32 of views.index
ActiveOrCreate(user) ==
    IF ActiveSessions(user) = {} THEN Created(user)
                                 ELSE Fetched(FirstActive(user))

\* filter(user=user, is_active=True).update(is_active=False)
Deactivated(table, user) ==
    [s \in DOMAIN table |->
       IF table[s].user = user /\ ~table[s].deleted
         THEN [table[s] EXCEPT !.is_active = FALSE] ELSE table[s]]

\* a row of ChatMessage; by: the user whose request wrote it
Message(session_id, role, by) ==
    [session |-> session_id, role |-> role, by |-> by]

\* the text of a message, character by character
Whitespace == {" "}
MessageChars == Whitespace \cup {"h"}
Messages == UNION {[1..n -> MessageChars] : n \in 0..MaxMessageLen}

RECURSIVE LStrip(_)
LStrip(m) ==
    IF m # <<>> /\ Head(m) \in Whitespace THEN LStrip(Tail(m)) ELSE m

RECURSIVE RStrip(_)
RStrip(m) ==
    IF m # <<>> /\ m[Len(m)] \in Whitespace
      THEN RStrip(SubSeq(m, 1, Len(m) - 1)) ELSE m

\* message.strip()
Strip(m) == RStrip(LStrip(m))

\* a test that forgets strip()
MessageIsFalsy(message) == message = <<>>

\* line 64 of views.chat: not message or len(message.strip()) == 0
IsEmptyMessage(message) == message = <<>> \/ Len(Strip(message)) = 0

\* the history a client sends: n turns, numbered in their order
Turns(n) == [i \in 1..n |-> i]
Histories ==
    {Turns(n) : n \in {0, history_limit}
                        \cup (history_limit + 1)..(history_limit + MaxExtraTurns)}

\* lines 70-71 of views.chat: history[-50:] when there are more than 50
LimitHistory(history) ==
    IF history # <<>> /\ Len(history) > history_limit
      THEN SubSeq(history, Len(history) - history_limit + 1, Len(history))
      ELSE history

\* the sources of an envelope that the web layer tells apart: 'gemini',
\* 'openai' and 'openai-fallback' (models.py lines 100-105, views.py lines
\* 138-141), and two of those it treats like any other,
\* 'openai-with-search' and 'error' ('gemini-with-search' and 'sql-query'
\* go the same way)
EnvelopeSources ==
    {"gemini", "openai", "openai-fallback", "openai-with-search", "error"}

\* ChatbotService() and get_response: an envelope, or the exception that a
\* client constructor raises (get_response itself returns)
ServiceOutcomes ==
    [kind : {"envelope"}, source : EnvelopeSources]
      \cup {[kind |-> "raised", source |-> ""]}

\* a test that counts the search-enhanced OpenAI answers too
CountsAsOpenAIWithSearch(source) ==
    source \in {"openai", "openai-fallback", "openai-with-search"}

\* views.py line 140, consumers.py line 185
CountsAsOpenAI(source) == source \in {"openai", "openai-fallback"}

NoAnalytics ==
    [messages_sent |-> 0, gemini_requests |-> 0, openai_requests |-> 0]

\* views.py lines 123-142, consumers.py lines 178-188
UpdateAnalytics(user, source) ==
    [analytics EXCEPT ![user] =
       [messages_sent |-> @.messages_sent + 1,
        gemini_requests |->
          @.gemini_requests + (IF source = "gemini" THEN 1 ELSE 0),
        openai_requests |->
          @.openai_requests + (IF CountsAsOpenAI(source) THEN 1 ELSE 0)]]

\* what the last request was and how it was answered.  used: the session it
\* worked on; returned: the session whose messages the answer carries;
\* history: what was handed to get_response when invoked
Answer(n, op, user, session_id, status, used, returned, message, supplied,
       history, invoked, source) ==
    [n |-> n, op |-> op, user |-> user, session_id |-> session_id,
     status |-> status, used |-> used, returned |-> returned,
     message |-> message, supplied |-> supplied, history |-> history,
     invoked |-> invoked, source |-> source]

NoAnswer == Answer(0, "none", "", 0, 0, 0, 0, <<>>, <<>>, <<>>, FALSE, "")

\* the consumer outside receive
IdleReceive ==
    [pc |-> "idle", user |-> "", session_id |-> 0, message |-> <<>>,
     supplied |-> <<>>]

\* channel-layer events and the frames their handlers send to the sockets
\* of the room
TypingEvent == [type |-> "typing_indicator", status |-> "typing",
                source |-> ""]
BotMessageEvent(source) ==
    [type |-> "bot_message", status |-> "", source |-> source]

\* ChatConsumer.typing_indicator (lines 116-123)
typing_indicator(event) ==
    <<[type |-> "typing", status |-> event.status, source |-> ""]>>

\* ChatConsumer.bot_message (lines 125-142): the message, then the idle
\* typing status
bot_message(event) ==
    <<[type |-> "message", status |-> "", source |-> event.source],
      [type |-> "typing", status |-> "idle", source |-> ""]>>

\* channel_layer.group_send: the handler named by the event's type runs
group_send(frames, event) ==
    frames \o (IF event.type = "typing_indicator"
                 THEN typing_indicator(event) ELSE bot_message(event))

\* a handler that swallows the exception
OnReceiveErrorSilent(frames) == frames

\* the except of receive (lines 104-113)
OnReceiveError(frames) == group_send(frames, BotMessageEvent("error"))

WebAtRest ==
    /\ sessions = <<>>
    /\ updated_order = <<>>
    /\ chat_messages = <<>>
    /\ analytics = [u \in Users |-> NoAnalytics]
    /\ answered = [u \in Users |-> 0]
    /\ web_last = NoAnswer
    /\ receiving = IdleReceive
    /\ room = <<>>

(***************************************************************************)
(* ChatbotService                                                          *)
(***************************************************************************)
Models == {"gemini", "openai"}
Callers == {"direct", "chat_view", "consumer"}

\* a handler that names the providers' API errors only: the TypeError of a
\* call with a wrong signature passes through it
ExceptApiErrorOnly(exc) == exc # "type_error"

\* "except Exception": every exception a client, the store or the search
\* can raise is caught
ExceptException(exc) == TRUE

\* what the configured store answers to one fetch
StoreOutcomes ==
    IF use_sql THEN {"data", "empty", "fail"} ELSE {"attribute_error"}

\* get_sql_database_data: get_database_info() or None when it raises
get_sql_database_data(so) ==
    IF so = "fail" /\ ExceptException(so) THEN None ELSE so

\* get_sheets_data calls sheets_client.get_all_data, which GoogleSheetsClient
\* does not define; the AttributeError is caught and None is returned
get_sheets_data(so) ==
    IF so = "attribute_error" /\ ExceptException(so) THEN None ELSE so

get_database_data(so) ==
    [tag |-> "return",
     value |-> IF use_sql THEN get_sql_database_data(so)
                          ELSE get_sheets_data(so)]

\* GoogleSearchClient.search: a list, an empty list, None, or an exception
SearchOutcomes == {"results", "empty", "failed", "raised"}

get_search_context(so) ==
    CASE so = "results" -> "search_results"
      [] so \in {"empty", "failed"} -> "no_results_sentinel"
      [] OTHER -> "error_retrieving"

\* appends the citing instructions: never the empty string
_get_search_enhanced_context(so) ==
    [tag |-> "return", value |-> get_search_context(so) \o "+instructions"]

Finish(env) ==
    /\ pc' = "done"
    /\ outcome' = "returned"
    /\ envelope' = env

Propagate ==
    /\ pc' = "done"
    /\ outcome' = "raised"
    /\ UNCHANGED envelope

\* the dict of a successful answer (lines 273-278)
SuccessEnvelope(response, source) ==
    [response |-> response, source |-> source, sheet_name |-> None,
     error |-> None]

\* the dicts of lines 134-138, 285-289, 421-425, 434-438, 441-445
ErrorEnvelope(response, error) ==
    [response |-> response, source |-> "error", error |-> error]

\* a fallback answer that reports the primary's error_message in its error
\* field
FallbackEnvelopeWithPrimaryError(response, source) ==
    [response |-> response, source |-> source, error |-> "primary failed"]

\* the dict of lines 409-413
FallbackEnvelope(response, source) ==
    [response |-> response, source |-> source, error |-> None]

Pending == [pending |-> TRUE]

Init ==
    /\ pc = "idle"
    /\ caller = ""
    /\ selected_model = ""
    /\ preferred_model = ""
    /\ gemini_client = "GeminiClient"
    /\ openai_client = "OpenAIClient"
    /\ use_sql \in BOOLEAN
    /\ is_sql_query = FALSE
    /\ is_search_query = FALSE
    /\ data_keyword = FALSE
    /\ database_data = None
    /\ search_context = ""
    /\ generated_query = NoText
    /\ attempt = 0
    /\ error_message = ""
    /\ geminiEnv \in Behaviours(GeminiFailKinds)
    /\ openaiEnv \in Behaviours(OpenAIFailKinds) \cup {NoKey}
    /\ geminiApiCalls = 0
    /\ openaiApiCalls = 0
    /\ trace = <<>>
    /\ outcome = "none"
    /\ envelope = Pending
    /\ SheetsAtRest
    /\ WebAtRest
    /\ SearchAtRest
    /\ NoCall

\* entry into get_response: the classifier calls of lines 121-124
Enter(c, m, pm, swap, p) ==
    /\ pc' = "fetch"
    /\ caller' = c
    /\ selected_model' = m
    /\ preferred_model' = pm
    /\ gemini_client' = IF swap THEN openai_client ELSE gemini_client
    /\ openai_client' = IF swap THEN gemini_client ELSE openai_client
    /\ is_sql_query' = _is_sql_query(p)
    /\ is_search_query' = _is_search_query(p)
    /\ data_keyword' = p.dataKw
    /\ UNCHANGED <<use_sql, database_data, search_context, generated_query,
                   attempt, error_message, geminiEnv, openaiEnv,
                   geminiApiCalls, openaiApiCalls, trace, outcome, envelope>>
    /\ UNCHANGED <<sheetsVars, webVars, searchVars, callVars>>

\* views.chat: swaps the two clients when the selected model is 'openai' and
\* calls get_response without preferred_model (default 'gemini')
chat ==
    /\ pc = "idle"
    /\ \E m \in Models, p \in Prompts :
         Enter("chat_view", m, "gemini", m = "openai", p)

\* ChatConsumer.get_chatbot_response: the same swap, the same call
get_chatbot_response ==
    /\ pc = "idle"
    /\ \E m \in Models, p \in Prompts :
         Enter("consumer", m, "gemini", m = "openai", p)

\* get_response(prompt, preferred_model=m) on a fresh ChatbotService
DirectCall ==
    /\ pc = "idle"
    /\ \E m \in Models, p \in Prompts :
         Enter("direct", m, m, FALSE, p)

\* lines 127-138
FetchData ==
    /\ pc = "fetch"
    /\ \E so \in StoreOutcomes :
         LET r == get_database_data(so) IN
         /\ trace' = Append(trace, StoreEvent)
         /\ IF r.tag = "raise"
              THEN /\ Finish(ErrorEnvelope(Text("db_trouble", "service", TRUE),
                                           so))
                   /\ UNCHANGED database_data
              ELSE /\ database_data' = r.value
                   /\ pc' = "search"
                   /\ UNCHANGED <<outcome, envelope>>
    /\ UNCHANGED <<caller, selected_model, preferred_model, gemini_client,
                   data_keyword, sheetsVars, webVars, searchVars, callVars,
                   openai_client, use_sql, is_sql_query, is_search_query,
                   search_context, generated_query, attempt, error_message,
                   geminiEnv, openaiEnv, geminiApiCalls, openaiApiCalls>>

\* lines 140-147
SearchStep ==
    /\ pc = "search"
    /\ IF is_search_query
         THEN \E so \in SearchOutcomes :
                LET r == _get_search_enhanced_context(so) IN
                search_context' = IF r.tag = "return" THEN r.value ELSE ""
         ELSE UNCHANGED search_context
    /\ pc' = IF is_sql_query /\ use_sql THEN "sql_generate" ELSE "primary"
    /\ UNCHANGED <<caller, selected_model, preferred_model, gemini_client,
                   data_keyword, sheetsVars, webVars, searchVars, callVars,
                   openai_client, use_sql, is_sql_query, is_search_query,
                   database_data, generated_query, attempt, error_message,
                   geminiEnv, openaiEnv, geminiApiCalls, openaiApiCalls,
                   trace, outcome, envelope>>

\* lines 151-169: self.gemini_client generates the SQL statement; the call
\* passes four positional arguments and no use_fallback
SqlGenerate ==
    /\ pc = "sql_generate"
    /\ LET r == ClientCall(gemini_client, FALSE, geminiApiCalls,
                           openaiApiCalls)
       IN
       /\ trace' = Append(trace, CallEvent(gemini_client, "sql_generate", "",
                                           "sql_query_request", r))
       /\ geminiApiCalls' = r.gApi
       /\ openaiApiCalls' = r.oApi
       /\ IF r.tag = "return"
            THEN /\ generated_query' = r.text
                 /\ pc' = "sql_execute"
                 /\ UNCHANGED <<outcome, envelope>>
            ELSE IF ExceptException(r.exc)
              THEN /\ pc' = "primary"
                   /\ UNCHANGED <<generated_query, outcome, envelope>>
              ELSE /\ Propagate
                   /\ UNCHANGED generated_query
    /\ UNCHANGED <<caller, selected_model, preferred_model, gemini_client,
                   data_keyword, sheetsVars, webVars, searchVars, callVars,
                   openai_client, use_sql, is_sql_query, is_search_query,
                   database_data, search_context, attempt, error_message,
                   geminiEnv, openaiEnv>>

\* what execute_sql_query returns for the generated text: rows, an empty
\* frame, an error frame, or the blocked frame of safe mode; a text that is
\* not an answer of a model is not a SQL statement and cannot return rows
QueryOutcomes(text) ==
    IF text.msg = "answer"
      THEN {"rows", "empty", "error", "blocked"}
      ELSE {"error", "blocked"}

\* a test that forgets query_result.empty
QuerySucceededUnlessError(qo) == qo \in {"rows", "empty"}

\* line 187: not query_result.empty and "error" not in query_result.columns
QuerySucceeded(qo) == qo = "rows"

\* lines 171-187 and 226-229
SqlExecute ==
    /\ pc = "sql_execute"
    /\ \E qo \in QueryOutcomes(generated_query) :
         /\ trace' = Append(trace, QueryEvent(qo))
         /\ pc' = IF QuerySucceeded(qo) THEN "sql_explain" ELSE "primary"
    /\ UNCHANGED <<caller, selected_model, preferred_model, gemini_client,
                   data_keyword, sheetsVars, webVars, searchVars, callVars,
                   openai_client, use_sql, is_sql_query, is_search_query,
                   database_data, search_context, generated_query, attempt,
                   error_message, geminiEnv, openaiEnv, geminiApiCalls,
                   openaiApiCalls, outcome, envelope>>

\* lines 188-225 and 230-232
SqlExplain ==
    /\ pc = "sql_explain"
    /\ LET r == ClientCall(gemini_client, FALSE, geminiApiCalls,
                           openaiApiCalls)
       IN
       /\ trace' = Append(trace, CallEvent(gemini_client, "sql_explain", "",
                                           "explanation_request", r))
       /\ geminiApiCalls' = r.gApi
       /\ openaiApiCalls' = r.oApi
       /\ IF r.tag = "return"
            THEN Finish(SuccessEnvelope(
                     Text("sql_response", r.text.gen, r.text.exc),
                     "sql-query"))
            ELSE IF ExceptException(r.exc)
              THEN /\ pc' = "primary"
                   /\ UNCHANGED <<outcome, envelope>>
              ELSE Propagate
    /\ UNCHANGED <<caller, selected_model, preferred_model, gemini_client,
                   data_keyword, sheetsVars, webVars, searchVars, callVars,
                   openai_client, use_sql, is_sql_query, is_search_query,
                   database_data, search_context, generated_query, attempt,
                   error_message, geminiEnv, openaiEnv>>

\* lines 245-254
primary_client ==
    IF preferred_model = "openai" THEN openai_client ELSE gemini_client
fallback_client ==
    IF preferred_model = "openai" THEN gemini_client ELSE openai_client
primary_model_name ==
    IF preferred_model = "openai" THEN "openai" ELSE "gemini"
fallback_model_name ==
    IF preferred_model = "openai" THEN "gemini" ELSE "openai"

\* lines 257-262
PrimarySource ==
    IF search_context # ""
      THEN primary_model_name \o "-with-search"
      ELSE primary_model_name

\* lines 264-301 up to the call of _try_fallback_model
InvokePrimary ==
    /\ pc = "primary"
    /\ LET r == ClientCall(primary_client, TRUE, geminiApiCalls,
                           openaiApiCalls)
       IN
       /\ trace' = Append(trace, CallEvent(primary_client, "primary",
                                           primary_model_name, "original", r))
       /\ geminiApiCalls' = r.gApi
       /\ openaiApiCalls' = r.oApi
       /\ IF r.tag = "return"
            THEN /\ Finish(SuccessEnvelope(r.text, PrimarySource))
                 /\ UNCHANGED <<attempt, error_message>>
            ELSE IF ~ExceptException(r.exc)
              THEN /\ Propagate
                   /\ UNCHANGED <<attempt, error_message>>
              ELSE IF MentionsApiKey(r.exc)
                THEN /\ Finish(ErrorEnvelope(
                            Text("api_configuration_issue", "service", FALSE),
                            r.exc))
                     /\ error_message' = r.exc
                     /\ UNCHANGED attempt
                ELSE /\ pc' = "fallback"
                     /\ attempt' = 0
                     /\ error_message' = r.exc
                     /\ UNCHANGED <<outcome, envelope>>
    /\ UNCHANGED <<caller, selected_model, preferred_model, gemini_client,
                   data_keyword, sheetsVars, webVars, searchVars, callVars,
                   openai_client, use_sql, is_sql_query, is_search_query,
                   database_data, search_context, generated_query,
                   geminiEnv, openaiEnv>>

\* one iteration of the for loop of _try_fallback_model (lines 396-445); the
\* sleep of a rate-limited attempt is part of the iteration
_try_fallback_model ==
    /\ pc = "fallback"
    /\ IF attempt >= rate_limit_retries
         THEN /\ Finish(ErrorEnvelope(
                     Text("connectivity_issues", "service", FALSE),
                     "Max retries exceeded"))
              /\ UNCHANGED <<attempt, trace, geminiApiCalls, openaiApiCalls>>
         ELSE
           LET r == ClientCall(fallback_client, TRUE, geminiApiCalls,
                               openaiApiCalls)
               ev == CallEvent(fallback_client, "fallback",
                               fallback_model_name, "original", r)
           IN
           /\ geminiApiCalls' = r.gApi
           /\ openaiApiCalls' = r.oApi
           /\ IF r.tag = "return"
                THEN /\ Finish(FallbackEnvelope(r.text, fallback_model_name))
                     /\ trace' = Append(trace, ev)
                     /\ UNCHANGED attempt
                ELSE IF ~ExceptException(r.exc)
                  THEN /\ Propagate
                       /\ trace' = Append(trace, ev)
                       /\ UNCHANGED attempt
                  ELSE IF MentionsRateLimit(r.exc)
                    THEN IF attempt = rate_limit_retries - 1
                      THEN /\ Finish(ErrorEnvelope(
                                  Text("high_demand", "service", FALSE),
                                  "All models experiencing rate limits"))
                           /\ trace' = Append(trace, ev)
                           /\ UNCHANGED attempt
                      ELSE /\ \E jitter \in Jitters :
                                trace' =
                                  trace \o <<ev, SleepEvent(attempt, jitter)>>
                           /\ attempt' = attempt + 1
                           /\ UNCHANGED <<pc, outcome, envelope>>
                    ELSE /\ Finish(ErrorEnvelope(
                                Text("trouble_simpler_query", "service", FALSE),
                                "Error: " \o r.exc))
                         /\ trace' = Append(trace, ev)
                         /\ UNCHANGED attempt
    /\ UNCHANGED <<caller, selected_model, preferred_model, gemini_client,
                   data_keyword, sheetsVars, webVars, searchVars, callVars,
                   openai_client, use_sql, is_sql_query, is_search_query,
                   database_data, search_context, generated_query,
                   error_message, geminiEnv, openaiEnv>>

Next ==
    \/ chat
    \/ get_chatbot_response
    \/ DirectCall
    \/ FetchData
    \/ SearchStep
    \/ SqlGenerate
    \/ SqlExecute
    \/ SqlExplain
    \/ InvokePrimary
    \/ _try_fallback_model

Spec == Init /\ [][Next]_vars

(***************************************************************************)
(* Callers of GoogleSheetsClient (dashboard, analytics, refresh view)      *)
(***************************************************************************)
\* the service as __init__ leaves it: no request is made while the sheets
\* client is exercised
ServiceAtRest ==
    /\ pc = "idle"
    /\ caller = ""
    /\ selected_model = ""
    /\ preferred_model = ""
    /\ gemini_client = "GeminiClient"
    /\ openai_client = "OpenAIClient"
    /\ use_sql = FALSE
    /\ is_sql_query = FALSE
    /\ is_search_query = FALSE
    /\ data_keyword = FALSE
    /\ database_data = None
    /\ search_context = ""
    /\ generated_query = NoText
    /\ attempt = 0
    /\ error_message = ""
    /\ geminiEnv = Healthy
    /\ openaiEnv = Healthy
    /\ geminiApiCalls = 0
    /\ openaiApiCalls = 0
    /\ trace = <<>>
    /\ outcome = "none"
    /\ envelope = Pending

InitSheets ==
    /\ ServiceAtRest
    /\ WebAtRest
    /\ cache = [k \in CacheKeys |-> None]
    /\ spreadsheets \in [SheetIds -> 0..MaxVersion]
    /\ client = FALSE
    /\ ops = 0
    /\ last = NoOp
    /\ SearchAtRest
    /\ NoCall

\* the client and the cache as a call finds them
Here == FetchState(cache, client, <<>>, 0, {}, {})

\* the call is over: its effects on the cache and the client, and its record
Commit(rec, st) ==
    /\ cache' = st.cache
    /\ client' = st.client
    /\ ops' = (ops + 1) % 2
    /\ last' = rec

CallGetAllProjects ==
    /\ UNCHANGED <<spreadsheets, serviceVars, webVars, searchVars, callVars>>
    /\ \E sheet_name \in SheetArgs, use_cache \in BOOLEAN,
          oc \in StoreCallOutcomes :
         LET st == get_all_projects(sheet_name, use_cache, Here, oc) IN
         Commit(OpRecord("get_all_projects", sheet_name, use_cache, None, st),
                st)

CallGetProjectMembers ==
    /\ UNCHANGED <<spreadsheets, serviceVars, webVars, searchVars, callVars>>
    /\ \E project_name \in {None, "Alpha"}, sheet_name \in SheetArgs,
          use_cache \in BOOLEAN, oc \in StoreCallOutcomes :
         LET st == get_project_members(project_name, sheet_name, use_cache,
                                       Here, oc)
         IN Commit(OpRecord("get_project_members", sheet_name, use_cache,
                            project_name, st), st)

CallGetAllProjectsFromAllSheets ==
    /\ UNCHANGED <<spreadsheets, serviceVars, webVars, searchVars, callVars>>
    /\ \E use_cache \in BOOLEAN, ocs \in [SheetNames -> StoreCallOutcomes] :
         LET st == get_all_projects_from_all_sheets(use_cache, Here, ocs) IN
         Commit(OpRecord("get_all_projects_from_all_sheets", None, use_cache,
                         None, st), st)

\* lines 368-395
clear_cache ==
    /\ UNCHANGED <<spreadsheets, serviceVars, webVars, searchVars, callVars>>
    /\ \E sheet_name \in SheetArgs :
         LET deleted == ClearedKeys(sheet_name)
             st == [Here EXCEPT
                      !.cache = [k \in CacheKeys |->
                                   IF k \in deleted THEN None ELSE cache[k]]]
         IN Commit(OpRecord("clear_cache", sheet_name, FALSE, None, st), st)

\* somebody edits a spreadsheet in Google Sheets
EditSpreadsheet ==
    /\ \E id \in SheetIds, v \in 0..MaxVersion :
         /\ spreadsheets[id] # v
         /\ spreadsheets' = [spreadsheets EXCEPT ![id] = v]
    /\ ops' = (ops + 1) % 2
    /\ last' = [NoOp EXCEPT !.op = "edit"]
    /\ UNCHANGED <<cache, client, serviceVars, webVars, searchVars, callVars>>

\* an entry outlives settings.GOOGLE_SHEETS_CACHE_TIMEOUT and is dropped
CacheTimeout ==
    /\ \E k \in CacheKeys :
         /\ cache[k] # None
         /\ cache' = [cache EXCEPT ![k] = None]
    /\ ops' = (ops + 1) % 2
    /\ last' = [NoOp EXCEPT !.op = "timeout"]
    /\ UNCHANGED <<spreadsheets, client, serviceVars, webVars, searchVars, callVars>>

\* the callers that read projects: the overview dashboard, the analytics
NextSheets ==
    \/ CallGetAllProjects
    \/ CallGetAllProjectsFromAllSheets
    \/ clear_cache
    \/ EditSpreadsheet
    \/ CacheTimeout

SpecSheets == InitSheets /\ [][NextSheets]_vars

\* the callers that read members: the single-project dashboard.  The two
\* resources share no cache key, so their callers are run apart.
NextMembers ==
    \/ CallGetProjectMembers
    \/ clear_cache
    \/ EditSpreadsheet
    \/ CacheTimeout

SpecMembers == InitSheets /\ [][NextMembers]_vars

(***************************************************************************)
(* Cache keys (GoogleSearchClient._get_cache_key, GoogleSheetsClient)      *)
(***************************************************************************)
\* GoogleSearchClient.max_results
max_results == 5

\* the characters a query is made of
QueryChars == {"a", "A", " "}

Queries == UNION {[1..n -> QueryChars] : n \in 0..MaxQueryLen}

\* str.lower(); a word of capitals stands for its letters
LowerChar(c) ==
    CASE c = "A" -> "a"
      [] c = "DROP" -> "drop"
      [] OTHER -> c

Lower(q) == [i \in DOMAIN q |-> LowerChar(q[i])]

\* str.split(): the words between runs of whitespace; word: the characters
\* of the word being read
RECURSIVE Split(_, _, _)
Split(q, i, word) ==
    LET done == IF word = "" THEN <<>> ELSE <<word>> IN
    IF i > Len(q) THEN done
    ELSE IF q[i] = " " THEN done \o Split(q, i + 1, "")
    ELSE Split(q, i + 1, word \o q[i])

\* ' '.join(words)
RECURSIVE Join(_)
Join(words) ==
    IF words = <<>> THEN ""
    ELSE IF Len(words) = 1 THEN words[1]
    ELSE words[1] \o " " \o Join(Tail(words))

\* hashlib.md5(...).hexdigest(): distinct inputs of this size do not collide
Md5(key_data) == "md5(" \o key_data \o ")"

\* lines 45-48
_get_cache_key(query, num_results, search_type) ==
    LET normalized_query == Join(Split(Lower(query), 1, ""))
        key_data == normalized_query \o "_" \o ToString(num_results) \o "_"
                      \o (IF search_type = None THEN "web" ELSE search_type)
    IN "google_search" \o "_" \o Md5(key_data)

\* num = min(num_results or self.max_results, 10) (line 131); 0 stands for
\* an omitted num_results too: None and 0 are both false
EffectiveNum(num_results) ==
    LET n == IF num_results = 0 THEN max_results ELSE num_results
    IN IF n < 10 THEN n ELSE 10

\* the arguments of GoogleSearchClient.search
SearchRequests ==
    [query : Queries, num_results : {0, 3, 5, 10, 11},
     search_type : {None, "image"}]

\* the key search() reads and writes for a request (lines 135, 162)
SearchKey(r) ==
    _get_cache_key(r.query, EffectiveNum(r.num_results), r.search_type)

\* a fetch of a worksheet: the sheet_id argument the client was built with,
\* the sheet_name argument of the call and the prefix of the method
SheetRequests ==
    [ctor_sheet_id : {None, "id_Marketing", "id_Other"},
     sheet_name : SheetArgs \cup {"Unknown"},
     prefix : {"projects_", "members_"}]

SheetKey(r) == CacheKey(r.prefix, r.sheet_name)

\* the spreadsheet the fetch reads
SpreadsheetOf(r) == CurrentSheetId(SheetIdOf(r.ctor_sheet_id), r.sheet_name)

KeyInputs ==
    [kind : {"search"}, a : SearchRequests, b : SearchRequests]
      \cup [kind : {"sheets"}, a : SheetRequests, b : SheetRequests]

InitKeys ==
    /\ ServiceAtRest
    /\ SheetsAtRest
    /\ WebAtRest
    /\ SearchAtRest
    /\ input \in KeyInputs
    /\ output = <<>>

\* two calls of search(): the keys they use
SearchKeys ==
    /\ input.kind = "search"
    /\ output = <<>>
    /\ output' = <<SearchKey(input.a), SearchKey(input.b)>>
    /\ UNCHANGED <<serviceVars, sheetsVars, webVars, searchVars, input>>

\* two fetches of a worksheet: the keys they use
SheetKeys ==
    /\ input.kind = "sheets"
    /\ output = <<>>
    /\ output' = <<SheetKey(input.a), SheetKey(input.b)>>
    /\ UNCHANGED <<serviceVars, sheetsVars, webVars, searchVars, input>>

NextKeys ==
    \/ SearchKeys
    \/ SheetKeys

SpecKeys == InitKeys /\ [][NextKeys]_vars

(***************************************************************************)
(* SQLDatabaseClient.execute_query and its safe mode                       *)
(***************************************************************************)
\* line 126
unsafe_keywords ==
    <<"drop", "delete", "update", "insert", "alter", "truncate", "create",
      "replace">>

\* what a statement is made of: words, given as one piece each, the
\* punctuation that SQL allows next to a word without a space, and the
\* space.  A statement is the string of its pieces
SqlPieces ==
    {unsafe_keywords[i] : i \in DOMAIN unsafe_keywords}
      \cup {"DROP", "select", "x", ";", "(", " "}

Statements == UNION {[1..n -> SqlPieces] : n \in 0..MaxStatementLen}

\* line 130: keyword in query.split(), for the stripped and lower-cased
\* query of line 125
KeywordInSplit(keyword, query) ==
    LET words == Split(Lower(query), 1, "") IN
    \E i \in DOMAIN words : words[i] = keyword

\* lines 123-133
_is_safe_query(query) ==
    \A k \in DOMAIN unsafe_keywords :
       ~KeywordInSplit(unsafe_keywords[k], query)

\* what pd.read_sql gives for a statement the database received
ReadOutcomes == {"rows", "empty", "error"}

\* the frame execute_query returns and whether the statement was sent to
\* the database
QueryResult(frame, sent) == [frame |-> frame, sent |-> sent]

InitSql ==
    /\ ServiceAtRest
    /\ SheetsAtRest
    /\ WebAtRest
    /\ SearchAtRest
    /\ input \in [kind : {"execute_query"}, query : Statements,
                   safe_mode : BOOLEAN]
    /\ output = <<>>

\* lines 106-121; ChatbotService.execute_sql_query calls it with
\* safe_mode=True
execute_query ==
    /\ input.kind = "execute_query"
    /\ output = <<>>
    /\ IF input.safe_mode /\ ~_is_safe_query(input.query)
         THEN output' = <<QueryResult("blocked", FALSE)>>
         ELSE \E ro \in ReadOutcomes : output' = <<QueryResult(ro, TRUE)>>
    /\ UNCHANGED <<serviceVars, sheetsVars, webVars, searchVars, input>>

NextSql == execute_query

SpecSql == InitSql /\ [][NextSql]_vars

(***************************************************************************)
(* ChatbotService._is_search_query on the text of a prompt                 *)
(***************************************************************************)
\* lines 460-495, in the order and with the repetitions of the list
search_indicators ==
    <<"latest", "recent", "current", "news", "today", "yesterday",
      "this week", "this month", "this year", "update", "updated",
      "happened", "trending", "released", "announced", "launch",
      "launched", "breaking", "event", "events", "stock", "price",
      "prices", "market", "covid", "pandemic", "election", "weather",
      "2024", "2025", "now", "currently", "at the moment", "right now",
      "as of", "up to date", "up-to-date", "real time", "real-time",
      "live", "immediate", "instantly", "developments", "progress",
      "advancement", "innovation", "breakthrough", "update", "revision",
      "changes", "report", "reports", "article", "study", "research",
      "publication", "findings", "discovery", "announcement", "define",
      "explain", "who is", "what is", "how to", "why do", "compare",
      "difference between", "pros and cons", "best practice", "tutorial",
      "guide", "statistics", "data on">>

\* lines 498-510
question_patterns ==
    <<"what is the latest", "how recent", "when did", "what happened",
      "tell me about", "is there any news", "what's new",
      "what are some recent", "what's happening", "what's going on",
      "any updates on", "current status of", "latest news about",
      "recent developments in", "what's the current", "how is",
      "what are the current trends", "latest information on",
      "recent updates about", "current state of",
      "what's the situation with", "any recent news about",
      "current events", "breaking news", "recent reports on">>

\* line 522
database_phrases == <<"in the database", "in our data", "in the sheet">>

\* pieces of text a prompt is made of; a prompt is some of them, separated
\* by spaces
Phrases ==
    {"Show me projects", "update", "Updated", "latest", "What happened",
     "tell me about", "in our database", "in the sheet"}

PromptTexts == {ps \in SUBSET Phrases : Cardinality(ps) <= MaxPhrases}

\* prompt.lower() (line 457), piece by piece
PhraseLower(phrase) ==
    CASE phrase = "Show me projects" -> "show me projects"
      [] phrase = "Updated" -> "updated"
      [] phrase = "What happened" -> "what happened"
      [] OTHER -> phrase

\* the strings of the three lists that are substrings of a lower-cased
\* piece; no string of the lists lies across two pieces
SubstringsOf(piece) ==
    CASE piece = "update" -> {"update"}
      [] piece = "updated" -> {"update", "updated"}
      [] piece = "latest" -> {"latest"}
      [] piece = "what happened" -> {"happened", "what happened"}
      [] piece = "tell me about" -> {"tell me about"}
      [] piece = "in our database" -> {"in our data"}
      [] piece = "in the sheet" -> {"in the sheet"}
      [] OTHER -> {}

\* `string in prompt_lower` (lines 515, 519, 522)
InPrompt(string, prompt) ==
    \E phrase \in prompt : string \in SubstringsOf(PhraseLower(phrase))

\* the turns of a loop over the list in which the test succeeds (lines
\* 514-520)
Hits(list, prompt) ==
    Cardinality({i \in DOMAIN list : InPrompt(list[i], prompt)})

\* what lines 513-524 compute of the prompt
Scored(prompt) ==
    [ind |-> Hits(search_indicators, prompt),
     pat |-> Hits(question_patterns, prompt),
     dbFocused |-> Hits(database_phrases, prompt) > 0]

InitClassify ==
    /\ ServiceAtRest
    /\ SheetsAtRest
    /\ WebAtRest
    /\ SearchAtRest
    /\ input \in [kind : {"_is_search_query"}, prompt : PromptTexts]
    /\ output = <<>>

\* one call of _is_search_query(prompt)
Classify ==
    /\ input.kind = "_is_search_query"
    /\ output = <<>>
    /\ output' = <<_is_search_query(Scored(input.prompt))>>
    /\ UNCHANGED <<serviceVars, sheetsVars, webVars, searchVars, input>>

NextClassify == Classify

SpecClassify == InitClassify /\ [][NextClassify]_vars

(***************************************************************************)
(* The two retry loops on their own                                        *)
(***************************************************************************)
\* _try_fallback_model entered with the patched OpenAI client as fallback
\* (get_response with the default preferred_model after a primary failure),
\* or OpenAIClient.get_chatbot_response called on its own
InitBackoff ==
    /\ input \in [kind : {"service_loop", "openai_loop"}]
    /\ output = <<>>
    /\ pc = IF input.kind = "service_loop" THEN "fallback" ELSE "idle"
    /\ caller = "direct"
    /\ selected_model = "gemini"
    /\ preferred_model = "gemini"
    /\ gemini_client = "GeminiClient"
    /\ openai_client =
         IF input.kind = "service_loop" THEN "MagicMock" ELSE "OpenAIClient"
    /\ use_sql = FALSE
    /\ is_sql_query = FALSE
    /\ is_search_query = FALSE
    /\ data_keyword = FALSE
    /\ database_data = None
    /\ search_context = ""
    /\ generated_query = NoText
    /\ attempt = 0
    /\ error_message = IF input.kind = "service_loop" THEN "other" ELSE ""
    /\ geminiEnv \in IF input.kind = "service_loop"
                      THEN {Healthy}
                      ELSE {Healthy,
                            [kind |-> "other", n |-> 0, forever |-> TRUE]}
    /\ openaiEnv \in Behaviours(OpenAIFailKinds)
    /\ geminiApiCalls = 0
    /\ openaiApiCalls = 0
    /\ trace = <<>>
    /\ outcome = "none"
    /\ envelope = Pending
    /\ SheetsAtRest
    /\ WebAtRest
    /\ SearchAtRest

\* one call of OpenAIClient.get_chatbot_response: every sleep of its loop
\* follows "retries += 1", so the k-th sleep is made with retries = k; the
\* second component of the output is what the call returned or raised
OpenAIBackoff ==
    /\ input.kind = "openai_loop"
    /\ output = <<>>
    /\ LET r == OpenAIClient_get_chatbot_response(FALSE, geminiApiCalls,
                                                  openaiApiCalls)
       IN
       /\ geminiApiCalls' = r.gApi
       /\ openaiApiCalls' = r.oApi
       /\ \E jitter \in [1..r.sleeps -> Jitters] :
            output' = <<[retries \in 1..r.sleeps |->
                          [att |-> retries, jitter |-> jitter[retries],
                           delay |-> OpenAIDelay(retries, jitter[retries])]],
                        r>>
    /\ UNCHANGED <<pc, caller, selected_model, preferred_model, gemini_client,
                   openai_client, use_sql, is_sql_query, is_search_query,
                   data_keyword, database_data, search_context,
                   generated_query, attempt, error_message, geminiEnv,
                   openaiEnv, trace, outcome, envelope, sheetsVars, webVars, searchVars,
                   input>>

NextBackoff ==
    \/ _try_fallback_model
    \/ OpenAIBackoff

SpecBackoff == InitBackoff /\ [][NextBackoff]_vars

(***************************************************************************)
(* GoogleSearchClient.search and get_search_context, one call at a time    *)
(***************************************************************************)
\* the client as __init__ leaves it, with or without its credentials; the
\* cache holds neither results nor a metrics record of the day
InitSearch ==
    /\ ServiceAtRest
    /\ SheetsAtRest
    /\ WebAtRest
    /\ NoCall
    /\ api_key \in BOOLEAN
    /\ search_cache = <<>>
    /\ metrics = NoMetrics
    /\ search_call = IdleCall
    /\ search_trace = <<>>
    /\ workers = <<>>

RequestEvent(att, resp) ==
    [ev |-> "request", att |-> att, kind |-> resp.kind,
     status |-> resp.status]

SearchSleepEvent(att, jitter) ==
    [ev |-> "sleep", att |-> att, jitter |-> jitter,
     delay |-> SearchDelay(att, jitter)]

LogEvent(success, error_msg, cached, status_code) ==
    [ev |-> "log", rec |-> MetricRecord(success, error_msg, cached,
                                        status_code)]

\* the metrics record after the _log_search_metrics calls among the events
RECURSIVE Logged(_, _)
Logged(daily_metrics, events) ==
    IF events = <<>> THEN daily_metrics
    ELSE Logged(IF Head(events).ev = "log"
                THEN UpdateMetrics(daily_metrics, Head(events).rec)
                ELSE daily_metrics,
                Tail(events))

\* the ValueError that the comment of line 128 says is no longer raised
MissingCredentialsRaise == SearchResult("raised", "ValueError")

\* lines 125-129
MissingCredentials == ReturnsNone

\* a loop that retries after every HTTP error status
RetriedStatusAny(status_code) == status_code >= 400

\* line 172
RetriedStatus(status_code) == status_code = 429

\* what the caller of the entry point receives
SearchReturn(entry, r) ==
    IF entry = "search" THEN r ELSE GoogleSearchClient_get_search_context(r)

\* the call is over: search returns r (or raises it) after the events;
\* results is what search gave, result what the entry point gives
Leave(call, before, events, r, store) ==
    /\ search_trace' = before \o events
    /\ metrics' = Logged(metrics, events)
    /\ search_call' = [call EXCEPT !.pc = "idle", !.results = r,
                                   !.result = SearchReturn(call.entry, r)]
    /\ search_cache' = store

\* the loop goes on with its next attempt
Continue(events) ==
    /\ search_trace' = search_trace \o events
    /\ metrics' = Logged(metrics, events)
    /\ search_call' = [search_call EXCEPT !.attempt = @ + 1]
    /\ UNCHANGED search_cache

\* search(query, ...) or get_search_context(query, ...) up to the first
\* request (lines 123-149, 247-249)
CallSearch ==
    /\ search_call.pc = "idle"
    /\ search_call.n < MaxCalls
    /\ \E entry \in {"search", "get_search_context"}, use_cache \in BOOLEAN :
         LET call == [pc |-> "request", entry |-> entry,
                      use_cache |-> use_cache, attempt |-> 0,
                      n |-> search_call.n + 1,
                      total_before |-> metrics.total_searches,
                      results |-> SearchResult("pending", <<>>),
                      result |-> SearchResult("pending", <<>>)]
         IN
         IF ~api_key
         THEN Leave(call, <<>>,
                    <<LogEvent(FALSE, "credentials", FALSE, 0)>>,
                    MissingCredentials, search_cache)
         ELSE IF use_cache /\ search_cache # <<>>
         THEN Leave(call, <<>>, <<LogEvent(TRUE, "", TRUE, 0)>>,
                    SearchResult("results", search_cache), search_cache)
         ELSE /\ search_call' = call
              /\ search_trace' = <<>>
              /\ UNCHANGED <<metrics, search_cache>>
    /\ UNCHANGED <<serviceVars, sheetsVars, webVars, callVars, api_key, workers>>

\* one turn of the loop of lines 152-197, and lines 199-202 after it.  The
\* API answers at most num items; callers ask for 3 or more
SearchRequest ==
    /\ search_call.pc = "request"
    /\ LET att == search_call.attempt
           more == att < search_rate_limit_retries - 1
           here == search_trace
       IN
       IF att >= search_rate_limit_retries
       THEN Leave(search_call, here,
                  <<LogEvent(FALSE, "after all retries", FALSE, 0)>>,
                  ReturnsNone, search_cache)
       ELSE \E resp \in Responses, jitter \in Jitters :
         LET req == RequestEvent(att, resp) IN
         CASE resp.kind = "ok" ->
                /\ jitter = 0
                /\ Leave(search_call, here,
                         <<req, LogEvent(TRUE, "", FALSE, resp.status)>>,
                         SearchResult("results", resp.items),
                         IF search_call.use_cache /\ resp.items # <<>>
                         THEN resp.items ELSE search_cache)
           [] resp.kind = "HTTPError" /\ RetriedStatus(resp.status) /\ more ->
                Continue(<<req, SearchSleepEvent(att, jitter)>>)
           [] resp.kind = "HTTPError" /\ RetriedStatus(resp.status)
                /\ ~more ->
                /\ jitter = 0
                /\ Leave(search_call, here,
                         <<req, LogEvent(FALSE, "rate limit exceeded", FALSE,
                                         resp.status)>>,
                         ReturnsNone, search_cache)
           [] resp.kind = "HTTPError" /\ ~RetriedStatus(resp.status) ->
                /\ jitter = 0
                /\ Leave(search_call, here,
                         <<req, LogEvent(FALSE, "HTTP", FALSE, resp.status)>>,
                         ReturnsNone, search_cache)
           [] resp.kind = "RequestException" /\ more ->
                Continue(<<req, LogEvent(FALSE, "RequestException", FALSE, 0),
                           SearchSleepEvent(att, jitter)>>)
           [] resp.kind = "RequestException" /\ ~more ->
                /\ jitter = 0
                /\ Leave(search_call, here,
                         <<req, LogEvent(FALSE, "RequestException", FALSE, 0),
                           LogEvent(FALSE, "failed after retries", FALSE,
                                    0)>>,
                         ReturnsNone, search_cache)
    /\ UNCHANGED <<serviceVars, sheetsVars, webVars, callVars, api_key, workers>>

\* the cached results expire (cache_timeout)
SearchCacheTimeout ==
    /\ search_cache # <<>>
    /\ search_cache' = <<>>
    /\ UNCHANGED <<serviceVars, sheetsVars, webVars, callVars, api_key, metrics,
                   search_call, search_trace, workers>>

\* how clear_search_cache is called: with no argument (as
\* ChatbotService.clear_search_cache calls it), with the query and the
\* num_results of the cached entry, with those of another entry, or with a
\* query alone
ClearArgs == {"none", "cached_entry", "other_entry", "query_only"}

\* clear_search_cache(...) was called with args and returned the value
ClearEvent(args, returned) ==
    [ev |-> "clear", args |-> args, returned |-> returned]

\* GoogleSearchClient.clear_search_cache (lines 322-367): cache.delete of
\* one key when query and num_results are given (335-338); otherwise nothing
\* is deleted, and the call with no argument at all returns False (359-363);
\* followed here as long as another search can come after it
clear_search_cache ==
    /\ search_call.pc = "idle"
    /\ search_call.n < MaxCalls
    /\ IF search_trace = <<>> THEN TRUE
       ELSE search_trace[Len(search_trace)].ev # "clear"
    /\ \E args \in ClearArgs :
         /\ search_cache' =
              IF args = "cached_entry" THEN <<>> ELSE search_cache
         /\ search_trace' =
              Append(search_trace, ClearEvent(args, args # "none"))
    /\ UNCHANGED <<serviceVars, sheetsVars, webVars, callVars, api_key, metrics,
                   search_call, workers>>

NextSearch ==
    \/ CallSearch
    \/ SearchRequest
    \/ SearchCacheTimeout
    \/ clear_search_cache

SpecSearch == InitSearch /\ [][NextSearch]_vars

(***************************************************************************)
(* _log_search_metrics under concurrent requests                           *)
(***************************************************************************)
\* requests are served by threads (views of a threaded server, ChatConsumer
\* through database_sync_to_async); each thread that reaches
\* _log_search_metrics reads the record of the day (line 80), changes its
\* own copy (lines 89-104) and writes it back (line 106).  No lock is taken
Threads == 1..MaxThreads

\* the records a search call logs
MetricRecords ==
    {MetricRecord(TRUE, "", FALSE, 200), MetricRecord(TRUE, "", TRUE, 0),
     MetricRecord(FALSE, "HTTP", FALSE, 500)}

\* a thread outside _log_search_metrics that has logged the records done
IdleWorker(done) ==
    [pc |-> "idle", rec |-> MetricRecord(TRUE, "", FALSE, 0),
     daily_metrics |-> NoMetrics, done |-> done]

InitMetrics ==
    /\ ServiceAtRest
    /\ SheetsAtRest
    /\ WebAtRest
    /\ NoCall
    /\ api_key = TRUE
    /\ search_cache = <<>>
    /\ metrics = NoMetrics
    /\ search_call = IdleCall
    /\ search_trace = <<>>
    /\ workers = [t \in Threads |-> IdleWorker(<<>>)]

\* line 80: daily_metrics = cache.get(metrics_key, {...}); the cache hands
\* out a copy of the record it holds
MetricsGet(t) ==
    /\ workers[t].pc = "idle"
    /\ Len(workers[t].done) < MaxLogs
    /\ \E rec \in MetricRecords :
         workers' = [workers EXCEPT ![t] =
                       [pc |-> "set", rec |-> rec, daily_metrics |-> metrics,
                        done |-> @.done]]
    /\ UNCHANGED <<serviceVars, sheetsVars, webVars, callVars, api_key, search_cache,
                   metrics, search_call, search_trace>>

\* lines 89-106: cache.set(metrics_key, daily_metrics, 86400)
MetricsSet(t) ==
    /\ workers[t].pc = "set"
    /\ metrics' = UpdateMetrics(workers[t].daily_metrics, workers[t].rec)
    /\ workers' = [workers EXCEPT ![t] =
                     IdleWorker(Append(@.done, workers[t].rec))]
    /\ UNCHANGED <<serviceVars, sheetsVars, webVars, callVars, api_key, search_cache,
                   search_call, search_trace>>

NextMetrics ==
    \/ \E t \in Threads : MetricsGet(t)
    \/ \E t \in Threads : MetricsSet(t)

SpecMetrics == InitMetrics /\ [][NextMetrics]_vars

(***************************************************************************)
(* Web layer: the views of sessions and chat, and ChatConsumer             *)
(***************************************************************************)
\* a server with no session, no message and no analytics row; the service
\* behind the views is taken by its outcome only
InitWeb ==
    /\ ServiceAtRest
    /\ SheetsAtRest
    /\ SearchAtRest
    /\ WebAtRest
    /\ input = [kind |-> "sessions"]
    /\ output = <<>>

\* the same server, for the study of what a chat request carries: its
\* message and its history
InitChat ==
    /\ ServiceAtRest
    /\ SheetsAtRest
    /\ SearchAtRest
    /\ WebAtRest
    /\ input = [kind |-> "chat_input"]
    /\ output = <<>>

\* what the clients send.  Under study of the sessions every non-empty
\* message is "h" and no history is sent; under study of the chat input
\* the service answers with one source
MessagesSent ==
    IF input.kind = "chat_input" THEN Messages ELSE {<<>>, <<"h">>}
HistoriesSent ==
    IF input.kind = "chat_input" THEN Histories ELSE {<<>>}
OutcomesMet ==
    IF input.kind = "chat_input"
      THEN {so \in ServiceOutcomes : so.source \in {"gemini", ""}}
      ELSE ServiceOutcomes

\* under study of the chat input two requests are followed: one that fills
\* the tables and the one whose input is looked at
RequestsAllowed ==
    IF input.kind = "chat_input" THEN Min(2, MaxRequests) ELSE MaxRequests

\* the session ids a client can send: none (0), an id of the table, or an
\* id that no row has
SessionIdsSent == 0..(Len(sessions) + 1)

\* a request that changes no table
NoWrite == UNCHANGED <<sessions, updated_order, chat_messages, analytics,
                       answered>>

\* views.index (lines 18-45): ChatbotService() first, then the active
\* session, created when the user has none
index ==
    /\ web_last.n < RequestsAllowed
    /\ \E user \in Users, built \in BOOLEAN :
         IF ~built
         THEN /\ NoWrite
              /\ web_last' = Answer(web_last.n + 1, "index", user, 0, 500, 0,
                                    0, <<>>, <<>>, <<>>, FALSE, "")
         ELSE LET sel == ActiveOrCreate(user) IN
              /\ sessions' = sel.s
              /\ updated_order' = sel.o
              /\ UNCHANGED <<chat_messages, analytics, answered>>
              /\ web_last' = Answer(web_last.n + 1, "index", user, 0, 200,
                                    sel.id, 0, <<>>, <<>>, <<>>, FALSE, "")
    /\ UNCHANGED <<serviceVars, sheetsVars, searchVars, callVars, receiving,
                   room>>

\* views.chat (lines 47-160)
ChatView ==
    /\ web_last.n < RequestsAllowed
    /\ \E user \in Users, message \in MessagesSent,
          session_id \in SessionIdsSent :
         IF IsEmptyMessage(message)
         THEN /\ NoWrite
              /\ web_last' = Answer(web_last.n + 1, "chat", user, session_id,
                                    400, 0, 0, message, <<>>, <<>>, FALSE,
                                    "")
         ELSE \E supplied \in HistoriesSent, so \in OutcomesMet :
           LET history == LimitHistory(supplied)
               sel == IF session_id # 0
                        THEN get_or_create_session(user, session_id)
                        ELSE ActiveOrCreate(user)
               asked == Message(sel.id, "user", user)
               reply == Message(sel.id, "assistant", user)
           IN
           /\ sessions' = sel.s
           /\ updated_order' = Touch(sel.o, sel.id)
           /\ IF so.kind = "raised"
                THEN /\ chat_messages' = Append(chat_messages, asked)
                     /\ UNCHANGED <<analytics, answered>>
                     /\ web_last' = Answer(web_last.n + 1, "chat", user,
                                           session_id, 500, sel.id, 0,
                                           message, supplied, <<>>, FALSE, "")
                ELSE /\ chat_messages' = chat_messages \o <<asked, reply>>
                     /\ analytics' = UpdateAnalytics(user, so.source)
                     /\ answered' = [answered EXCEPT ![user] = @ + 1]
                     /\ web_last' = Answer(web_last.n + 1, "chat", user,
                                           session_id, 200, sel.id, 0,
                                           message, supplied, history, TRUE,
                                           so.source)
    /\ UNCHANGED <<serviceVars, sheetsVars, searchVars, callVars, receiving,
                   room>>

\* views.create_new_session (lines 390-411)
create_new_session ==
    /\ web_last.n < RequestsAllowed
    /\ \E user \in Users :
         /\ sessions' = Append(Deactivated(sessions, user), NewSession(user))
         /\ updated_order' = <<Len(sessions) + 1>> \o updated_order
         /\ web_last' = Answer(web_last.n + 1, "create_new_session", user, 0,
                               200, Len(sessions) + 1, 0, <<>>, <<>>, <<>>,
                               FALSE, "")
    /\ UNCHANGED <<chat_messages, analytics, answered>>
    /\ UNCHANGED <<serviceVars, sheetsVars, searchVars, callVars, receiving,
                   room>>

\* views.switch_session (lines 413-455)
switch_session ==
    /\ web_last.n < RequestsAllowed
    /\ \E user \in Users, session_id \in SessionIdsSent :
         IF GetSession(user, session_id)
         THEN /\ sessions' = [Deactivated(sessions, user) EXCEPT
                                ![session_id].is_active = TRUE]
              /\ updated_order' = Touch(updated_order, session_id)
              /\ web_last' = Answer(web_last.n + 1, "switch_session", user,
                                    session_id, 200, session_id, session_id,
                                    <<>>, <<>>, <<>>, FALSE, "")
         ELSE /\ UNCHANGED <<sessions, updated_order>>
              /\ web_last' = Answer(web_last.n + 1, "switch_session", user,
                                    session_id, 404, 0, 0, <<>>, <<>>, <<>>,
                                    FALSE, "")
    /\ UNCHANGED <<chat_messages, analytics, answered>>
    /\ UNCHANGED <<serviceVars, sheetsVars, searchVars, callVars, receiving,
                   room>>

\* a view that reads the messages of one session: found, it answers with
\* them; not found, with the status given
ReadSession(op, not_found) ==
    /\ web_last.n < RequestsAllowed
    /\ \E user \in Users, session_id \in SessionIdsSent :
         web_last' =
           IF GetSession(user, session_id)
             THEN Answer(web_last.n + 1, op, user, session_id, 200,
                         session_id, session_id, <<>>, <<>>, <<>>, FALSE, "")
             ELSE Answer(web_last.n + 1, op, user, session_id, not_found, 0,
                         0, <<>>, <<>>, <<>>, FALSE, "")
    /\ NoWrite
    /\ UNCHANGED <<serviceVars, sheetsVars, searchVars, callVars, receiving,
                   room>>

\* views.get_session_messages (lines 457-492)
get_session_messages ==
    /\ web_last.op \in STRING
    /\ ReadSession("get_session_messages", 404)

\* views.view_chat_session (lines 348-363): a redirect when not found
view_chat_session ==
    /\ web_last.op \in STRING
    /\ ReadSession("view_chat_session", 302)

\* views.chat_history with delete_session posted (lines 323-332); the
\* messages of the session go with it (on_delete=CASCADE)
delete_session ==
    /\ web_last.n < RequestsAllowed
    /\ \E user \in Users, session_id \in SessionIdsSent :
         IF GetSession(user, session_id)
         THEN /\ sessions' = [sessions EXCEPT ![session_id].deleted = TRUE]
              /\ updated_order' =
                   SelectSeq(updated_order, LAMBDA s : s # session_id)
              /\ chat_messages' =
                   SelectSeq(chat_messages,
                             LAMBDA m : m.session # session_id)
              /\ web_last' = Answer(web_last.n + 1, "delete_session", user,
                                    session_id, 302, session_id, 0, <<>>,
                                    <<>>, <<>>, FALSE, "")
         ELSE /\ UNCHANGED <<sessions, updated_order, chat_messages>>
              /\ web_last' = Answer(web_last.n + 1, "delete_session", user,
                                    session_id, 200, 0, 0, <<>>, <<>>, <<>>,
                                    FALSE, "")
    /\ UNCHANGED <<analytics, answered>>
    /\ UNCHANGED <<serviceVars, sheetsVars, searchVars, callVars, receiving,
                   room>>

\* ChatConsumer.receive up to the typing indicator (lines 42-66): text that
\* is not JSON goes to the except; a frame with no message or no session_id
\* is dropped
receive ==
    /\ receiving.pc = "idle"
    /\ web_last.n < RequestsAllowed
    /\ \E user \in Users, json \in BOOLEAN :
         IF ~json
         THEN /\ room' = OnReceiveError(<<>>)
              /\ web_last' = Answer(web_last.n + 1, "receive", user, 0, 0,
                                    0, 0, <<>>, <<>>, <<>>, FALSE, "error")
              /\ UNCHANGED receiving
         ELSE \E message \in MessagesSent, session_id \in SessionIdsSent :
           IF message = <<>> \/ session_id = 0
           THEN /\ room' = <<>>
                /\ web_last' = Answer(web_last.n + 1, "receive", user,
                                      session_id, 0, 0, 0, message, <<>>,
                                      <<>>, FALSE, "")
                /\ UNCHANGED receiving
           ELSE \E supplied \in HistoriesSent :
                /\ room' = group_send(<<>>, TypingEvent)
                /\ web_last' = Answer(web_last.n + 1, "receive", user,
                                      session_id, 0, 0, 0, message, supplied,
                                      <<>>, FALSE, "")
                /\ receiving' = [pc |-> "working", user |-> user,
                                 session_id |-> session_id,
                                 message |-> message, supplied |-> supplied]
    /\ NoWrite
    /\ UNCHANGED <<serviceVars, sheetsVars, searchVars, callVars>>

\* the rest of receive (lines 68-114): the session, the user's message, the
\* service, the assistant's message, the analytics and the bot_message; an
\* exception of the service ends in the except
receive_respond ==
    /\ receiving.pc = "working"
    /\ \E so \in OutcomesMet :
         LET user == receiving.user
             sel == get_or_create_session(user, receiving.session_id)
             asked == Message(sel.id, "user", user)
             reply == Message(sel.id, "assistant", user)
         IN
         /\ sessions' = sel.s
         /\ updated_order' = Touch(sel.o, sel.id)
         /\ IF so.kind = "raised"
              THEN /\ chat_messages' = Append(chat_messages, asked)
                   /\ UNCHANGED <<analytics, answered>>
                   /\ room' = OnReceiveError(room)
                   /\ web_last' = Answer(web_last.n, "receive", user,
                                         receiving.session_id, 0, sel.id, 0,
                                         receiving.message,
                                         receiving.supplied, <<>>, FALSE,
                                         "error")
              ELSE /\ chat_messages' = chat_messages \o <<asked, reply>>
                   /\ analytics' = UpdateAnalytics(user, so.source)
                   /\ answered' = [answered EXCEPT ![user] = @ + 1]
                   /\ room' = group_send(room, BotMessageEvent(so.source))
                   /\ web_last' = Answer(web_last.n, "receive", user,
                                         receiving.session_id, 0, sel.id, 0,
                                         receiving.message,
                                         receiving.supplied,
                                         receiving.supplied, TRUE, so.source)
    /\ receiving' = IdleReceive
    /\ UNCHANGED <<serviceVars, sheetsVars, searchVars, callVars>>

NextWeb ==
    \/ index
    \/ ChatView
    \/ create_new_session
    \/ switch_session
    \/ get_session_messages
    \/ view_chat_session
    \/ delete_session
    \/ receive
    \/ receive_respond

SpecWeb == InitWeb /\ [][NextWeb]_vars

\* receive is a coroutine that the event loop resumes when the awaited
\* database calls and the service, which returns, are over: once begun, its
\* second half is run
SpecWebFair == SpecWeb /\ WF_vars(receive_respond)

NextChat ==
    \/ ChatView
    \/ receive
    \/ receive_respond

SpecChat == InitChat /\ [][NextChat]_vars

(***************************************************************************)
(* Vocabulary of the properties                                            *)
(***************************************************************************)
Returned == outcome = "returned"

\* the request takes neither the search step nor the SQL path
PlainPath == ~is_search_query /\ ~(is_sql_query /\ use_sql)

CallsWhere(P(_)) ==
    {i \in 1..Len(trace) : trace[i].ev = "call" /\ P(trace[i])}

IsPrimaryCall(e) == e.role = "primary"
IsFallbackCall(e) == e.role = "fallback"
IsGeminiCall(e) == e.cls = "GeminiClient"
IsOpenAICall(e) == e.cls = "OpenAIClient"
IsSimplifiedCall(e) == e.prompt = "simplified"

\* the invocation ended in a failure of the provider: it raised, or the API
\* behind it failed
CallFailed(e) == e.result = "raise" \/ e.api \notin {"ok", "not_reached"}

NSleeps == Cardinality({i \in 1..Len(trace) : trace[i].ev = "sleep"})

EnvOf(cls) == IF cls = "GeminiClient" THEN geminiEnv ELSE openaiEnv

ProviderOfClass(cls) == IF cls = "GeminiClient" THEN "gemini" ELSE "openai"

ProviderOfSource(s) ==
    CASE s \in {"gemini", "gemini-with-search"} -> "gemini"
      [] s \in {"openai", "openai-with-search"} -> "openai"
      [] OTHER -> "none"

\* the reason of a failed invocation: the exception it raised, or the
\* failure of the API that the client swallowed
FailureReason(e) == IF e.result = "raise" THEN e.exc ELSE e.api

\* the failure reasons whose text an error field contains: the field is
\* str(e) itself (line 288), "Error: " followed by str(e) (line 437), or a
\* fixed phrase that quotes no exception (lines 424, 444)
ReasonsIn(err) ==
    {k \in OpenAIFailKinds \cup {"type_error", "nokey"} :
        err = k \/ err = "Error: " \o k}

\* the record is that of a fetch from the sheets client
IsFetch(rec) ==
    rec.op \in {"get_all_projects", "get_project_members",
                "get_all_projects_from_all_sheets"}

\* two fetches of the same resource with the same arguments but use_cache
SameFetch(a, b) ==
    /\ IsFetch(a)
    /\ a.op = b.op
    /\ a.sheet_name = b.sheet_name
    /\ a.project_name = b.project_name

\* the fetch reads rows of a sheet that clear_cache(sheet_name) is about
ReadsClearedSheet(sheet_name, rec) ==
    \/ sheet_name = None
    \/ rec.op = "get_all_projects_from_all_sheets"
    \/ CacheKey("", rec.sheet_name) = CacheKey("", sheet_name)

(***************************************************************************)
(* Properties                                                              *)
(***************************************************************************)

\* C1: get_response never raises: no exception leaves the call, and when the
\* call is over it has returned a dict with the keys response, source and
\* error, whatever the providers, the store, the search and the SQL path did.
C1_NeverRaises ==
    /\ outcome # "raised"
    /\ pc = "done" =>
         /\ Returned
         /\ {"response", "source", "error"} \subseteq DOMAIN envelope

\* a request during which a client invocation raised and that has returned
C1_Witness ==
    /\ pc = "done"
    /\ Returned
    /\ \E i \in 1..Len(trace) : trace[i].ev = "call" /\ trace[i].result = "raise"

\* C2: the source of a returned envelope names the provider that produced
\* the text: a text produced by Gemini is not labelled openai and a text
\* produced by OpenAI is not labelled gemini.
C2_SourceNamesProducer ==
    Returned =>
      /\ ~(envelope.response.gen = "gemini"
             /\ ProviderOfSource(envelope.source) = "openai")
      /\ ~(envelope.response.gen = "openai"
             /\ ProviderOfSource(envelope.source) = "gemini")

\* C3: with preferred_model='openai' and an OpenAI that can answer, the
\* OpenAI client is invoked exactly once, the Gemini client not at all, and
\* the source is 'openai'; the same with the two providers exchanged.
C3_PreferredModelOnly ==
    (pc = "done" /\ caller = "direct" /\ PlainPath) =>
      /\ (preferred_model = "openai" /\ openaiEnv = Healthy) =>
           /\ Cardinality(CallsWhere(IsOpenAICall)) = 1
           /\ Cardinality(CallsWhere(IsGeminiCall)) = 0
           /\ Returned /\ envelope.source = "openai"
      /\ (preferred_model = "gemini" /\ geminiEnv = Healthy) =>
           /\ Cardinality(CallsWhere(IsGeminiCall)) = 1
           /\ Cardinality(CallsWhere(IsOpenAICall)) = 0
           /\ Returned /\ envelope.source = "gemini"

\* C4: in every returned envelope the error field is non-null exactly when
\* the source is 'error'.
C4_ErrorIffErrorSource ==
    Returned => ((envelope.error # None) <=> (envelope.source = "error"))

\* an envelope returned by _try_fallback_model after the primary failed
C4_Witness ==
    /\ Returned
    /\ error_message # ""
    /\ CallsWhere(IsFallbackCall) # {}

\* C5: the string of a caught exception never appears in the response text
\* of a returned envelope.
C5_NoExceptionTextInResponse ==
    Returned => ~envelope.response.exc

\* C6: when the primary provider fails with an authentication error the
\* request ends with source 'error' and the configuration message, and the
\* primary's invocation is the only provider invocation and no sleep is made.
C6_AuthIsTerminal ==
    LET AuthFailure(e) ==
            /\ IsPrimaryCall(e)
            /\ (e.api = "auth" \/ MentionsApiKey(e.exc))
        AnswerCall(e) == IsPrimaryCall(e) \/ IsFallbackCall(e)
    IN
    (pc = "done" /\ CallsWhere(AuthFailure) # {}) =>
      /\ Returned
      /\ envelope.source = "error"
      /\ envelope.response.msg = "api_configuration_issue"
      /\ Cardinality(CallsWhere(AnswerCall)) = 1
      /\ NSleeps = 0

\* C7: when the primary provider fails with a rate-limit error or any other
\* failure that is not an authentication failure, the secondary provider is
\* invoked at least once before get_response returns.
C7_FallbackAfterPrimaryFailure ==
    LET OtherFailure(e) ==
            /\ IsPrimaryCall(e)
            /\ CallFailed(e)
            /\ ~(e.api = "auth" \/ MentionsApiKey(e.exc))
    IN
    (pc = "done" /\ CallsWhere(OtherFailure) # {}) =>
      CallsWhere(IsFallbackCall) # {}

\* C8: a primary provider that fails once with a rate-limit error and then
\* succeeds is invoked exactly twice, with exactly one sleep, before any
\* invocation of the secondary, and its second answer is the returned text.
C8_PrimaryRetriedAfterBackoff ==
    LET FailsOnce == [kind |-> "rate_limit", n |-> 1, forever |-> FALSE] IN
    (pc = "done" /\ PlainPath /\ EnvOf(primary_client) = FailsOnce) =>
      /\ Cardinality(CallsWhere(IsPrimaryCall)) = 2
      /\ CallsWhere(IsFallbackCall) = {}
      /\ NSleeps = 1
      /\ Returned
      /\ envelope.response =
           Text("answer", ProviderOfClass(primary_client), FALSE)

\* C9: when every one of the N invocations of the primary provider fails
\* with a rate-limit error and the secondary succeeds on its first call,
\* exactly N sleeps are made and the secondary's text is returned with the
\* secondary's name as source.
C9_RetryBound ==
    LET AlwaysLimited == [kind |-> "rate_limit", n |-> 0, forever |-> TRUE] IN
    (/\ pc = "done"
     /\ PlainPath
     /\ EnvOf(primary_client) = AlwaysLimited
     /\ EnvOf(fallback_client) = Healthy) =>
      /\ NSleeps = Cardinality(CallsWhere(IsPrimaryCall))
      /\ Returned
      /\ envelope.source = fallback_model_name
      /\ envelope.response =
           Text("answer", ProviderOfClass(fallback_client), FALSE)

\* C10: when the primary has failed and every invocation of the secondary
\* has failed too, exactly one more provider invocation is made, with a
\* simplified prompt; its text is returned when it succeeds, and the request
\* ends with source 'error' only when it fails.
C10_SimplifiedPromptRetry ==
    LET FailedPrimary(e) == IsPrimaryCall(e) /\ CallFailed(e)
        FailedFallback(e) == IsFallbackCall(e) /\ CallFailed(e)
        S == CallsWhere(IsSimplifiedCall)
    IN
    (/\ pc = "done"
     /\ PlainPath
     /\ CallsWhere(FailedPrimary) # {}
     /\ CallsWhere(IsFallbackCall) # {}
     /\ CallsWhere(IsFallbackCall) = CallsWhere(FailedFallback)) =>
      /\ Cardinality(S) = 1
      /\ Returned
      /\ \A i \in S :
           /\ i = Len(trace)
           /\ ~CallFailed(trace[i]) => envelope.source # "error"
           /\ CallFailed(trace[i]) => envelope.source = "error"

\* C11: a primary provider whose API fails once with a context-length error
\* and would then answer is invoked exactly once more, with a truncated
\* history, no invocation of the other provider is made, and the answer of
\* that second invocation is the returned text.
C11_ContextLengthRetry ==
    LET TooLongOnce == [kind |-> "context", n |-> 1, forever |-> FALSE]
        TruncatedPrimary(e) == IsPrimaryCall(e) /\ e.history = "truncated"
    IN
    (pc = "done" /\ PlainPath /\ EnvOf(primary_client) = TooLongOnce) =>
      /\ Cardinality(CallsWhere(IsPrimaryCall)) = 2
      /\ Cardinality(CallsWhere(TruncatedPrimary)) = 1
      /\ CallsWhere(IsFallbackCall) = {}
      /\ Returned
      /\ envelope.response =
           Text("answer", ProviderOfClass(primary_client), FALSE)

\* C12: when the primary provider fails and every invocation of the
\* secondary fails, the error field of the returned envelope contains the
\* failure reason of the primary and the failure reason of the secondary.
C12_ErrorNamesBothFailures ==
    LET FailedPrimary(e) == IsPrimaryCall(e) /\ CallFailed(e)
        FailedFallback(e) == IsFallbackCall(e) /\ CallFailed(e)
    IN
    (/\ pc = "done"
     /\ PlainPath
     /\ CallsWhere(FailedPrimary) # {}
     /\ CallsWhere(IsFallbackCall) # {}
     /\ CallsWhere(IsFallbackCall) = CallsWhere(FailedFallback)) =>
      /\ Returned
      /\ \A i \in CallsWhere(FailedPrimary) \cup CallsWhere(FailedFallback) :
           (i \in CallsWhere(IsPrimaryCall) \/ i = Len(trace)) =>
             FailureReason(trace[i]) \in ReasonsIn(envelope.error)

\* C13: when every provider invocation of a request has failed, the
\* envelope has source 'error' and its text is one of the service's fixed
\* messages, whichever provider is the primary.
C13_DegradationDeterminism ==
    LET AnswerCall(e) == IsPrimaryCall(e) \/ IsFallbackCall(e)
        FailedCall(e) == AnswerCall(e) /\ CallFailed(e)
    IN
    (/\ pc = "done"
     /\ PlainPath
     /\ CallsWhere(AnswerCall) # {}
     /\ CallsWhere(AnswerCall) = CallsWhere(FailedCall)) =>
      /\ Returned
      /\ envelope.source = "error"
      /\ envelope.response.gen = "service"
      /\ ~envelope.response.exc

\* C15: during a request whose prompt contains no data keyword the context
\* store is never called.
C15_NoStoreCallWithoutDataKeyword ==
    (pc # "idle" /\ ~data_keyword) =>
      \A i \in 1..Len(trace) : trace[i].ev # "store"

\* C16: after a fetch in which a pass through the store failed, no cache
\* entry written by that fetch holds the result of the failure: neither the
\* entry of a sheet whose pass failed nor the combined all-sheets entry,
\* which would lack that sheet's rows.
C16_FailedFetchNotCached ==
    (IsFetch(last) /\ last.failed # {}) =>
      /\ AllSheetsKey \notin last.wrote
      /\ \A n \in last.failed :
           /\ CacheKey("projects_", n) \notin last.wrote
           /\ CacheKey("members_", n) \notin last.wrote

\* C17: two consecutive fetches of the same resource with use_cache=true,
\* the first of which met no store failure, return the same data and pass
\* through the store at most once in total, whatever the spreadsheet holds.
C17_CacheIdempotence ==
    [][(/\ ops' # ops
        /\ SameFetch(last, last')
        /\ last.use_cache /\ last'.use_cache
        /\ last.failed = {}) =>
         /\ last'.result = last.result
         /\ last.calls + last'.calls <= 1]_vars

\* C18: a fetch with use_cache=false passes through the store whatever the
\* cache holds, and a fetch of the same resource with use_cache=true that
\* follows it immediately returns the data it has just read.
C18_RefreshReplacesCached ==
    [][(/\ ops' # ops
        /\ SameFetch(last, last')
        /\ ~last.use_cache /\ last'.use_cache
        /\ last.failed = {}) =>
         /\ last.calls >= 1
         /\ last'.result = last.result]_vars

\* C19: the first fetch with use_cache=true after clear_cache(sheet_name)
\* that reads rows of that sheet, and after clear_cache() any fetch, passes
\* through the store: it does not return data cached before the clear.
C19_ClearInvalidates ==
    [][(/\ ops' # ops
        /\ last.op = "clear_cache"
        /\ IsFetch(last') /\ last'.use_cache
        /\ ReadsClearedSheet(last.sheet_name, last')) =>
         last'.calls >= 1]_vars

\* C20: two search requests get the same key exactly when they are the
\* same logical request (same query after case and whitespace normalisation,
\* same effective result count, same search type), and two sheet fetches
\* that read different spreadsheets never get the same key.
C20_KeysSeparateRequests ==
    LET a == input.a
        b == input.b
        SameSearch ==
            /\ Join(Split(Lower(a.query), 1, ""))
                 = Join(Split(Lower(b.query), 1, ""))
            /\ EffectiveNum(a.num_results) = EffectiveNum(b.num_results)
            /\ a.search_type = b.search_type
    IN
    (input.kind # "none" /\ output # <<>>) =>
      /\ input.kind = "search" => ((output[1] = output[2]) <=> SameSearch)
      /\ input.kind = "sheets" =>
           (SpreadsheetOf(a) # SpreadsheetOf(b) => output[1] # output[2])

\* C14: every backoff delay of the two retry loops equals
\* min(base * 2^attempt + jitter, maxDelay) with jitter in [0, 1] and so
\* does not exceed maxDelay, at every attempt index the loops reach: base is
\* rate_limit_cooldown in _try_fallback_model and initial_retry_delay in
\* OpenAIClient.get_chatbot_response, maxDelay is max_retry_delay.
C14_BackoffDelayBound ==
    LET Capped(base, att, jitter) ==
            LET d == base * (2 ^ att) * JitterSteps + jitter
                cap == max_retry_delay * JitterSteps
            IN IF d < cap THEN d ELSE cap
        Bounded(base, sl) ==
            /\ sl.jitter \in 0..JitterSteps
            /\ sl.delay = Capped(base, sl.att, sl.jitter)
            /\ sl.delay <= max_retry_delay * JitterSteps
    IN
    /\ \A i \in 1..Len(trace) :
         trace[i].ev = "sleep" => Bounded(rate_limit_cooldown, trace[i])
    /\ (input.kind = "openai_loop" /\ output # <<>>) =>
         \A k \in DOMAIN output[1] :
           Bounded(initial_retry_delay, output[1][k])

\* _try_fallback_model has slept at the last attempt index before the one
\* that gives up
C14_Witness ==
    \E i \in 1..Len(trace) :
      /\ trace[i].ev = "sleep"
      /\ trace[i].att = rate_limit_retries - 2
      /\ trace[i].jitter = JitterSteps

(***************************************************************************)
(* Vocabulary of the search client's properties                            *)
(***************************************************************************)
\* a call of the search client has been made and is over
SearchOver == search_call.n > 0 /\ search_call.pc = "idle"

RequestsMade == SelectSeq(search_trace, LAMBDA e : e.ev = "request")

SleepsMade == SelectSeq(search_trace, LAMBDA e : e.ev = "sleep")

RecordsLogged == SelectSeq(search_trace, LAMBDA e : e.ev = "log")

\* the last request of the call got no answer
LastRequestFailed ==
    /\ RequestsMade # <<>>
    /\ RequestsMade[Len(RequestsMade)].kind # "ok"

FailureLogged ==
    /\ \E i \in 1..Len(RecordsLogged) : ~RecordsLogged[i].rec.success
    /\ metrics.failed_searches > 0

(***************************************************************************)
(* C21: GoogleSearchClient.search never raises to its caller: when the     *)
(* credentials are missing, or the request it ends on got an HTTP error    *)
(* status, a timeout or a connection error, it has recorded a failure in   *)
(* the metrics and returns None.                                           *)
(***************************************************************************)
C21_SearchNeverRaises ==
    /\ search_call.result.kind # "raised"
    /\ (SearchOver /\ search_call.entry = "search"
          /\ (~api_key \/ LastRequestFailed))
         => (search_call.result = ReturnsNone /\ FailureLogged)

\* a timeout, then an HTTP 500: None, with both failures recorded
C21_Witness ==
    /\ SearchOver
    /\ search_call.entry = "search"
    /\ Len(RequestsMade) = 2
    /\ RequestsMade[1].kind = "RequestException"
    /\ RequestsMade[2].status = 500
    /\ search_call.result = ReturnsNone
    /\ metrics.failed_searches = 2

(***************************************************************************)
(* C22: within one call of search, a request answered with HTTP 429 is     *)
(* followed by a sleep of rate_limit_cooldown * 2^attempt + jitter seconds *)
(* and then by the next request, at most rate_limit_retries requests are   *)
(* issued, and the call returns None when the last of them gets 429 too;   *)
(* a request answered with any other HTTP error status ends the call       *)
(* with None: no sleep and no request follow it.                           *)
(***************************************************************************)
C22_RateLimitRetry ==
    /\ Len(RequestsMade) <= search_rate_limit_retries
    /\ \A i \in 1..Len(search_trace) :
         LET e == search_trace[i]
             last_of_call ==
                 /\ SearchOver
                 /\ \A j \in (i + 1)..Len(search_trace) :
                      search_trace[j].ev \notin {"request", "sleep"}
                 /\ search_call.entry = "search"
                      => search_call.result = ReturnsNone
         IN
         /\ (e.ev = "request" /\ e.att > 0) => search_trace[i - 1].ev = "sleep"
         /\ (e.ev = "request" /\ e.kind = "HTTPError" /\ e.status = 429) =>
              IF e.att < search_rate_limit_retries - 1
              THEN /\ search_trace[i + 1].ev = "sleep"
                   /\ \E jitter \in Jitters :
                        search_trace[i + 1].delay =
                          search_rate_limit_cooldown * (2 ^ e.att)
                            * JitterSteps + jitter
              ELSE last_of_call
         /\ (e.ev = "request" /\ e.kind = "HTTPError" /\ e.status # 429)
              => last_of_call

\* three requests answered with 429, two sleeps between them, then None
C22_Witness ==
    /\ SearchOver
    /\ Len(RequestsMade) = search_rate_limit_retries
    /\ \A i \in 1..Len(RequestsMade) : RequestsMade[i].status = 429
    /\ Len(SleepsMade) = search_rate_limit_retries - 1
    /\ SleepsMade[2].delay > SleepsMade[1].delay
    /\ search_call.result = ReturnsNone

(***************************************************************************)
(* C23: a call of search records exactly one entry in the metrics record   *)
(* of the day: when the call is over, total_searches is one more than it   *)
(* was when the call began, whatever the outcome.                          *)
(***************************************************************************)
C23_OneRecordPerCall ==
    SearchOver =>
      /\ metrics.total_searches = search_call.total_before + 1
      /\ Len(RecordsLogged) = 1

\* the records the threads 1..t have logged
RECURSIVE LoggedBy(_)
LoggedBy(t) ==
    IF t = 0 THEN <<>> ELSE LoggedBy(t - 1) \o workers[t].done

CountLogged(P(_)) == Len(SelectSeq(LoggedBy(MaxThreads), P))

AllWorkersIdle == \A t \in Threads : workers[t].pc = "idle"

(***************************************************************************)
(* C24: metrics updates are safe under concurrent requests: once every     *)
(* concurrent _log_search_metrics call has completed, total_searches,      *)
(* successful_searches, failed_searches and cached_searches of the day     *)
(* equal the numbers of records the calls logged, in any interleaving.     *)
(***************************************************************************)
C24_NoLostMetricsUpdate ==
    (workers # <<>> /\ AllWorkersIdle) =>
      /\ metrics.total_searches = CountLogged(LAMBDA r : TRUE)
      /\ metrics.successful_searches =
           CountLogged(LAMBDA r : r.success)
      /\ metrics.failed_searches =
           CountLogged(LAMBDA r : ~r.success)
      /\ metrics.cached_searches =
           CountLogged(LAMBDA r : r.success /\ r.cached)

\* _log_search_metrics names no maximum for error_details.  Whatever the
\* maximum is, a day with more failing searches than it must not make the
\* list longer than it: in the day of the model, which has MaxCalls calls,
\* a maximum that more failures can test is below MaxCalls
ErrorDetailsLimit == MaxCalls - 1

(***************************************************************************)
(* C25: the list of recent failure details of the day's metrics record is  *)
(* bounded: its length does not follow the number of failed searches       *)
(* beyond a fixed maximum.                                                 *)
(***************************************************************************)
C25_ErrorDetailsBounded ==
    Len(metrics.error_details) <= ErrorDetailsLimit

\* every line of the form [Source k: <title> (<url>)]
SourceReferenceLines ==
    {"[Source " \o ToString(k) \o ": " \o r.title \o " (" \o r.link \o ")]" :
       k \in 0..(MaxResults + 1), r \in Results}

(***************************************************************************)
(* C26: get_search_context returns 'No relevant search results found.'     *)
(* when the search gave None or an empty list; otherwise the text it       *)
(* returns holds exactly one line '[Source k: <title> (<url>)]' per        *)
(* result, with k = 1..N in the order of the results.                      *)
(***************************************************************************)
C26_ContextSourceLines ==
    (SearchOver /\ search_call.entry = "get_search_context") =>
      LET results == search_call.results
          text == search_call.result.value
      IN
      /\ search_call.result.kind = "text"
      /\ IF results.kind = "None" \/ results.value = <<>>
         THEN text = <<NoResultsText>>
         ELSE SelectSeq(text, LAMBDA l : l \in SourceReferenceLines)
                = [k \in 1..Len(results.value) |->
                     "[Source " \o ToString(k) \o ": "
                       \o results.value[k].title
                       \o " (" \o results.value[k].link \o ")]"]

\* a context built from two different results
C26_Witness ==
    /\ SearchOver
    /\ search_call.entry = "get_search_context"
    /\ Len(search_call.results.value) = 2
    /\ search_call.results.value[1].title = "t2"
    /\ search_call.results.value[2].title = "t1"
    /\ Len(search_call.result.value) > 2

\* the search text get_response holds comes from results that were obtained
SearchTextFromResults == search_context = "search_results" \o "+instructions"

WithSearchSources == {m \o "-with-search" : m \in Models}

(***************************************************************************)
(* C27: when the search step fails or finds nothing, get_response goes on  *)
(* without search context: the only search text it ever adds to the        *)
(* provider's context comes from results that were obtained, and it        *)
(* returns a '<provider>-with-search' source only then.                    *)
(***************************************************************************)
C27_SearchSourceOnlyWithResults ==
    /\ search_context # "" => SearchTextFromResults
    /\ (Returned /\ envelope.source \in WithSearchSources)
         => SearchTextFromResults

\* the structured-query path was entered and something in it failed: the
\* model call that generates the statement or the one that explains the
\* rows raised, or execute_sql_query gave a blocked, an error or an empty
\* frame
SqlPathFailed ==
    \E i \in 1..Len(trace) :
      \/ /\ trace[i].ev = "call"
         /\ trace[i].role \in {"sql_generate", "sql_explain"}
         /\ trace[i].result = "raise"
      \/ /\ trace[i].ev = "query"
         /\ trace[i].result \in {"blocked", "error", "empty"}

SqlPathSucceeded ==
    /\ \E i \in 1..Len(trace) :
         trace[i].ev = "query" /\ trace[i].result = "rows"
    /\ \E i \in 1..Len(trace) :
         /\ trace[i].ev = "call"
         /\ trace[i].role = "sql_explain"
         /\ trace[i].result = "return"

(***************************************************************************)
(* C28: the structured-query path fails closed.  With SQL mode enabled and *)
(* a query classified as structured, a failure in the path (generation     *)
(* raises, the statement is blocked, execution errors, no rows) never      *)
(* raises out of get_response: the request goes on to the primary          *)
(* provider and its source is not 'sql-query'.  'sql-query' is returned    *)
(* only after a query that returned rows, with the table and the           *)
(* explanation of the model.                                               *)
(***************************************************************************)
C28_SqlPathFailsClosed ==
    /\ SqlPathFailed =>
         /\ use_sql /\ is_sql_query
         /\ outcome # "raised"
         /\ pc \notin {"sql_execute", "sql_explain"}
         /\ Returned =>
              /\ envelope.source # "sql-query"
              /\ CallsWhere(IsPrimaryCall) # {}
    /\ (Returned /\ envelope.source = "sql-query") =>
         /\ use_sql /\ is_sql_query
         /\ SqlPathSucceeded
         /\ envelope.response.msg = "sql_response"
         /\ envelope.error = None

\* a statement blocked by safe mode, then the answer of the primary provider
C28_Witness ==
    /\ Returned
    /\ \E i \in 1..Len(trace) :
         trace[i].ev = "query" /\ trace[i].result = "blocked"
    /\ envelope.source = "gemini"
    /\ envelope.error = None

\* what may stand next to a word of a SQL statement
SqlDelimiters == {" ", ";", "("}

\* the keyword occurs in the statement as a word of its own, in any case:
\* between the start or a delimiter and the end or a delimiter
OccursAsWord(keyword, query) ==
    \E i \in DOMAIN query :
      /\ Lower(query)[i] = keyword
      /\ i = 1 \/ query[i - 1] \in SqlDelimiters
      /\ i = Len(query) \/ query[i + 1] \in SqlDelimiters

(***************************************************************************)
(* C29: in safe mode the relational adapter rejects, before execution,     *)
(* every statement in which one of the keywords drop, delete, update,      *)
(* insert, alter, truncate, create, replace occurs, in any case and        *)
(* wherever it occurs (for example directly after ';' or before '('): the  *)
(* statement is not sent to the database and the blocked-error frame is    *)
(* returned.                                                               *)
(***************************************************************************)
C29_SafeModeRejectsKeywords ==
    (input.kind = "execute_query" /\ input.safe_mode /\ output # <<>>
       /\ \E k \in DOMAIN unsafe_keywords :
            OccursAsWord(unsafe_keywords[k], input.query))
      => output = <<QueryResult("blocked", FALSE)>>

\* the strings of a list that are found in the prompt
Found(list, prompt) ==
    {list[i] : i \in DOMAIN list} \cap
      {s \in UNION {SubstringsOf(PhraseLower(ph)) : ph \in Phrases} :
         InPrompt(s, prompt)}

(***************************************************************************)
(* C30: _is_search_query is true exactly when (indicator keywords found in *)
(* the lower-cased prompt) * 1.0 + (question patterns found) * 0.7 - (1.0  *)
(* if the prompt holds 'in the database', 'in our data' or 'in the sheet') *)
(* is at least 1.0; so a database-focused prompt with at most one          *)
(* indicator keyword and no question pattern does not trigger a search.    *)
(* Scores are in tenths.                                                   *)
(***************************************************************************)
C30_SearchScore ==
    (input.kind = "_is_search_query" /\ output # <<>>) =>
      LET indicators == Cardinality(Found(search_indicators, input.prompt))
          patterns == Cardinality(Found(question_patterns, input.prompt))
          database_focused == Found(database_phrases, input.prompt) # {}
      IN
      /\ output[1] =
           (10 * indicators + 7 * patterns
              - (IF database_focused THEN 10 ELSE 0) >= 10)
      /\ (database_focused /\ indicators <= 1 /\ patterns = 0)
           => output[1] = FALSE

(***************************************************************************)
(* OpenAIClient.get_chatbot_response: calls, sleeps and the Gemini backup  *)
(***************************************************************************)
\* the call of OpenAIClient.get_chatbot_response is over
OpenAICallOver == input.kind = "openai_loop" /\ output # <<>>

\* every completion call failed with an error the loop retries
RetriesExhausted ==
    /\ openaiEnv.forever
    /\ openaiEnv.kind \in {"timeout", "rate_limit", "auth", "other"}

\* the first completion call raised something that is not an API error
UnexpectedError == ApiOutcome(openaiEnv, 1) = "unexpected"

InFallbackLoop == input.kind = "service_loop"

IsRateLimitedFallback(e) == IsFallbackCall(e) /\ e.exc = "rate_limit"

IsOtherFallbackFailure(e) ==
    IsFallbackCall(e) /\ e.result = "raise" /\ e.exc # "rate_limit"

IsSqlCall(e) == e.role \in {"sql_generate", "sql_explain"}

\* the time.sleep calls made during the first n events of the request: the
\* sleep of _try_fallback_model counts one, a client invocation counts the
\* sleeps of the client's own retry loop
RECURSIVE SleepsDuring(_)
SleepsDuring(n) ==
    IF n = 0 THEN 0 ELSE SleepsDuring(n - 1) + trace[n].sleeps

\* C38: a get_response call makes at most one primary invocation, at most
\* rate_limit_retries secondary invocations, at most two generator/explainer
\* invocations on the SQL path, and at most rate_limit_retries - 1 backoff
\* sleeps, whatever the providers do.
C38_BoundedCallsAndSleeps ==
    /\ Cardinality(CallsWhere(IsPrimaryCall)) <= 1
    /\ Cardinality(CallsWhere(IsFallbackCall)) <= rate_limit_retries
    /\ Cardinality(CallsWhere(IsSqlCall)) <= 2
    /\ SleepsDuring(Len(trace)) <= rate_limit_retries - 1

(***************************************************************************)
(* clear_search_cache with no argument                                     *)
(***************************************************************************)
\* the last thing the search client did was clear_search_cache()
ClearedAll ==
    /\ search_trace # <<>>
    /\ search_trace[Len(search_trace)] \in
         {ClearEvent("none", TRUE), ClearEvent("none", FALSE)}

\* a call of search or get_search_context with use_cache=true begins, with
\* the credentials configured
CachedSearchBegins ==
    /\ api_key
    /\ search_call.pc = "idle"
    /\ search_call'.n = search_call.n + 1
    /\ search_call'.use_cache

\* C32: clear_search_cache() with no argument returns True and clears every
\* cached search result: the next search with use_cache=true for a query
\* that was cached issues an HTTP request and does not return the cached
\* result.
C32_ClearAllInvalidates ==
    [][/\ ClearedAll' => search_trace'[Len(search_trace')].returned
       /\ (ClearedAll /\ CachedSearchBegins) =>
            search_call'.pc = "request"]_vars

(***************************************************************************)
(* The web layer's properties                                              *)
(***************************************************************************)
\* the last k items of a sequence, in their order
MostRecent(h, k) ==
    LET n == Min(Len(h), k) IN [i \in 1..n |-> h[Len(h) - n + i]]

\* C31: the history that an entry point hands to get_response, the chat
\* view or the WebSocket consumer, has at most 50 turns: it is the most
\* recent 50 turns of what the client supplied, in their original order.
C31_HistoryLimited ==
    web_last.invoked =>
      /\ Len(web_last.history) <= history_limit
      /\ web_last.history = MostRecent(web_last.supplied, history_limit)

\* a request that the chat view has just answered
ChatRequestStep == web_last'.n # web_last.n /\ web_last'.op = "chat"

\* the message is empty or made of whitespace only
BlankMessage(message) ==
    \A i \in 1..Len(message) : message[i] \in Whitespace

\* C33: a chat request whose message is empty or whitespace-only is
\* answered with status 400 and nothing else happens: no session is
\* created or changed, no message is saved, no analytics counter changes
\* and the service is not invoked.
C33_BlankMessageRejected ==
    [][(ChatRequestStep /\ BlankMessage(web_last'.message)) =>
         /\ web_last'.status = 400
         /\ ~web_last'.invoked
         /\ UNCHANGED <<sessions, updated_order, chat_messages, analytics,
                        answered>>]_vars

\* a whitespace-only message was rejected by a server that holds sessions
\* and messages
C33_Witness ==
    /\ web_last.op = "chat"
    /\ web_last.message # <<>>
    /\ BlankMessage(web_last.message)
    /\ web_last.status = 400
    /\ chat_messages # <<>>

\* the messages of one session
MessagesOf(table, s) == SelectSeq(table, LAMBDA m : m.session = s)

\* the sessions that belong to somebody else than the user
ForeignSessions(user) ==
    {s \in 1..Len(sessions) : sessions[s].user # user}

\* C34: chat sessions are isolated between users.  A request of a user
\* (chat, switch_session, get_session_messages, view_chat_session, session
\* deletion, WebSocket receive) never returns the messages of a session of
\* another user and never activates, deletes or appends a message to such a
\* session; every message that a request writes is stored in a session
\* owned by the requesting user.
C34_SessionsIsolated ==
    [][LET user == web_last'.user IN
       /\ \A s \in ForeignSessions(user) :
            /\ sessions'[s] = sessions[s]
            /\ MessagesOf(chat_messages', s) = MessagesOf(chat_messages, s)
       /\ web_last'.returned \notin ForeignSessions(user)
       /\ web_last'.used \notin ForeignSessions(user)
       /\ \A i \in 1..Len(chat_messages') :
            sessions'[chat_messages'[i].session].user = chat_messages'[i].by
      ]_vars

\* a chat request that named a session of another user, one that holds
\* messages, has been answered from a session of the requesting user
C34_Witness ==
    /\ web_last.op \in {"chat", "receive"}
    /\ web_last.invoked
    /\ web_last.session_id \in ForeignSessions(web_last.user)
    /\ MessagesOf(chat_messages, web_last.session_id) # <<>>
    /\ web_last.used # web_last.session_id
    /\ sessions[web_last.used].user = web_last.user

\* a chat request has just been answered: the chat view returned 200, or
\* receive broadcast the answer
AnsweredStep ==
    /\ web_last'.invoked
    /\ \/ web_last'.n # web_last.n
       \/ receiving.pc = "working" /\ receiving'.pc = "idle"

C39_OneActiveSession ==
    \A user \in Users : Cardinality(ActiveSessions(user)) <= 1

\* the frame that shows the typing indicator, and the one that hides it
ShowsTyping(frame) == frame.type = "typing" /\ frame.status = "typing"
HidesTyping(frame) == frame.type = "typing" /\ frame.status = "idle"

\* the room shows the typing indicator
RoomTyping == room # <<>> /\ ShowsTyping(room[Len(room)])

\* every typing frame of the room is followed by a message of the bot and,
\* after it, by the idle status
TypingAnswered ==
    \A i \in 1..Len(room) :
      ShowsTyping(room[i]) =>
        \E j \in (i + 1)..Len(room) :
          /\ room[j].type = "message"
          /\ \E k \in (j + 1)..Len(room) : HidesTyping(room[k])

\* C40: in the WebSocket consumer a 'typing' indicator broadcast for a
\* received message is eventually followed by a bot_message broadcast to the
\* room (the answer, or an error message with source 'error' when something
\* failed in between), whose handler sends the 'idle' status; once receive
\* has returned the room is not left in 'typing'.
C40_TypingEndsWithBotMessage ==
    /\ [](receiving.pc = "idle" => (TypingAnswered /\ ~RoomTyping))
    /\ RoomTyping ~> (receiving.pc = "idle" /\ TypingAnswered /\ ~RoomTyping)

\* the service raised after the typing indicator was shown, and the room
\* got the error message and the idle status
C40_Witness ==
    /\ receiving.pc = "idle"
    /\ Len(room) = 3
    /\ ShowsTyping(room[1])
    /\ room[2].type = "message"
    /\ room[2].source = "error"
    /\ HidesTyping(room[3])

====
